---- MODULE Spec2Model ----
(***************************************************************************)
(* NewsMaster pipeline: the daily map aggregation                          *)
(* (src/pipeline/aggregate_map_data.py) and the global entity              *)
(* normalization (src/pipeline/run.py), as state machines.                 *)
(*                                                                         *)
(* Python values are modelled as follows.                                  *)
(*   dict / defaultdict / Counter : a function whose DOMAIN is the set of  *)
(*       keys the dict holds (a defaultdict gets a key when it is first    *)
(*       indexed);                                                         *)
(*   float quotient a / b         : the exact rational <<n, d>> in lowest  *)
(*       terms, d > 0; a quotient by zero (ZeroDivisionError) is <<n, 0>>; *)
(*   None / a non-string JSON value : the sentinels None and NonString.    *)
(***************************************************************************)
EXTENDS Integers, Sequences, FiniteSets, TLC

\* ------------------------------------------------------------- bounds
\* the longest articles.json "data" list
MaxArticles == 2
\* the longest "ner" list of one article
MaxNer == 2
\* the longest providers.json list
MaxProviders == 2
\* the most locations looked up in a run of the resolver
MaxLookups == 2
\* the most articles of a date in the runs that compare provider counts
MaxShareArticles == 3
\* the most articles of a date in the runs that fill a top-entity table
MaxTopArticles == 2
\* the most calls of are_entities_similar in a run
MaxComparisons == 1
\* the most date folders under public/data
MaxFolders == 2
\* the most entity occurrences of a batch of processed articles
MaxBatch == 4
\* the number of times global_entity_normalization is run on a batch
MaxRuns == 2
\* the number of dates main loops over
NumDates == 2
\* the number of f.write calls json.dump makes for one snapshot
NumChunks == 2

\* ------------------------------------------------------ python values
None == "<None>"
NonString == "<non-string>"
Unhashable == "<list>"

EmptyDict == [k \in {} |-> 0]

DictGet(d, k, default) == IF k \in DOMAIN d THEN d[k] ELSE default

\* d[k] += n on a defaultdict(int) / Counter
DictAdd(d, k, n) ==
    IF k \in DOMAIN d THEN [d EXCEPT ![k] = @ + n] ELSE d @@ (k :> n)

\* d[k1][k2] += 1 on a defaultdict(lambda: defaultdict(int))
DictAdd2(d, k1, k2, n) ==
    IF k1 \in DOMAIN d THEN [d EXCEPT ![k1] = DictAdd(@, k2, n)]
    ELSE d @@ (k1 :> (k2 :> n))

RECURSIVE SumValues(_)
SumValues(d) ==
    IF DOMAIN d = {} THEN 0
    ELSE LET k == CHOOSE x \in DOMAIN d : TRUE
         IN d[k] + SumValues([x \in DOMAIN d \ {k} |-> d[x]])

SeqToSet(s) == {s[i] : i \in DOMAIN s}

\* all sequences over S of length at most n
SeqsUpTo(S, n) == UNION {[1..k -> S] : k \in 0..n}

\* ---------------------------------------------------------- rationals
RECURSIVE GCD(_, _)
GCD(a, b) == IF b = 0 THEN a ELSE GCD(b, a % b)

\* the quotient n / d of two non-negative integers; <<n, 0>> is the
\* ZeroDivisionError python raises for d = 0
Quot(n, d) ==
    IF d = 0 THEN <<n, 0>>
    ELSE LET g == GCD(n, d) IN <<n \div g, d \div g>>

RZero == <<0, 1>>
ROne == <<1, 1>>
IsZeroDivision(r) == r[2] = 0
RPos(r) == r[2] # 0 /\ r[1] > 0

\* r + s; an operand that is a ZeroDivisionError propagates
RAdd(r, s) ==
    IF r[2] = 0 THEN r
    ELSE IF s[2] = 0 THEN s
    ELSE Quot(r[1] * s[2] + s[1] * r[2], r[2] * s[2])

\* r / s
RDiv(r, s) ==
    IF r[2] = 0 THEN r
    ELSE IF s[2] = 0 THEN s
    ELSE IF s[1] = 0 THEN <<r[1], 0>>
    ELSE Quot(r[1] * s[2], r[2] * s[1])

\* r > s for two rationals
RGreater(r, s) == r[1] * s[2] > s[1] * r[2]

\* sum(d.values()) for a dict of rationals
RECURSIVE RSumValues(_)
RSumValues(d) ==
    IF DOMAIN d = {} THEN RZero
    ELSE LET k == CHOOSE x \in DOMAIN d : TRUE
         IN RAdd(d[k], RSumValues([x \in DOMAIN d \ {k} |-> d[x]]))

\* ------------------------------------------------------------ strings
\* str.lower() on the strings of the model
str_lower(s) ==
    CASE s = "Germany" -> "germany"
      [] s = "France" -> "france"
      [] s = "Europe" -> "europe"
      [] s = "Washington" -> "washington"
      [] s = "Atlantis" -> "atlantis"
      [] s = "LeMonde" -> "lemonde"
      [] s = "LEMONDE" -> "lemonde"
      [] s = "GERMANY" -> "germany"
      [] s = " Germany " -> " germany "
      [] s = "Deutschland" -> "deutschland"
      [] s = " Deutschland" -> " deutschland"
      [] OTHER -> s

\* str.strip() on the strings of the model
str_strip(s) ==
    CASE s = " e1" -> "e1"
      [] s = " germany " -> "germany"
      [] s = " Germany " -> "Germany"
      [] s = " deutschland" -> "deutschland"
      [] s = " Deutschland" -> "Deutschland"
      [] OTHER -> s

\* -------------------------------------------------- gazetteer tables
\* the keys of COUNTRY_CODE_TO_NAME: every pycountry alpha_3 code
all_codes == {"FRA", "DEU", "USA"}

REGION_COUNTRIES == ("europe" :> <<"FRA", "DEU">>)

COUNTRY_NAME_TO_ISO3 == ("germany" :> "DEU") @@ ("france" :> "FRA")

\* the most populous city of each name; a city may bear the name of a
\* country or of a region
CITY_TO_COUNTRY ==
    ("washington" :> "USA") @@ ("germany" :> "USA") @@ ("europe" :> "USA")

\* pycountry.countries.search_fuzzy(name)[0].alpha_3, None for LookupError;
\* the library folds and trims the query itself before it matches
search_fuzzy(location_name) ==
    IF str_strip(str_lower(location_name)) = "deutschland" THEN "DEU" ELSE None

\* the cascade with the city stage before the country stage
get_country_code_city_first(location_name) ==
    IF location_name = "" \/ location_name \in {None, NonString, Unhashable}
    THEN [kind |-> "none", codes |-> <<>>]
    ELSE LET location_name_lower == str_strip(str_lower(location_name)) IN
         IF location_name_lower \in DOMAIN REGION_COUNTRIES
         THEN [kind |-> "tuple", codes |-> REGION_COUNTRIES[location_name_lower]]
         ELSE IF location_name_lower \in DOMAIN CITY_TO_COUNTRY
         THEN [kind |-> "str", codes |-> <<CITY_TO_COUNTRY[location_name_lower]>>]
         ELSE IF location_name_lower \in DOMAIN COUNTRY_NAME_TO_ISO3
         THEN [kind |-> "str", codes |-> <<COUNTRY_NAME_TO_ISO3[location_name_lower]>>]
         ELSE IF search_fuzzy(location_name) # None
         THEN [kind |-> "str", codes |-> <<search_fuzzy(location_name)>>]
         ELSE [kind |-> "none", codes |-> <<>>]

\* The result is [kind, codes]: kind "none" (None), "str" (one alpha-3
\* code) or "tuple" (a region's member list).
get_country_code_for_location(location_name) ==
    IF location_name = "" \/ location_name \in {None, NonString, Unhashable}
    THEN [kind |-> "none", codes |-> <<>>]
    ELSE LET location_name_lower == str_strip(str_lower(location_name)) IN
         IF location_name_lower \in DOMAIN REGION_COUNTRIES
         THEN [kind |-> "tuple", codes |-> REGION_COUNTRIES[location_name_lower]]
         ELSE IF location_name_lower \in DOMAIN COUNTRY_NAME_TO_ISO3
         THEN [kind |-> "str", codes |-> <<COUNTRY_NAME_TO_ISO3[location_name_lower]>>]
         ELSE IF location_name_lower \in DOMAIN CITY_TO_COUNTRY
         THEN [kind |-> "str", codes |-> <<CITY_TO_COUNTRY[location_name_lower]>>]
         ELSE IF search_fuzzy(location_name) # None
         THEN [kind |-> "str", codes |-> <<search_fuzzy(location_name)>>]
         ELSE [kind |-> "none", codes |-> <<>>]

\* ------------------------------------------------- provider registry
\* providers.json is [readable, data]: unreadable (missing, not JSON) or a
\* list of entries [id, country]; "" stands for a missing or empty field.
Unreadable == [readable |-> FALSE, data |-> <<>>]
Readable(providers_data) == [readable |-> TRUE, data |-> providers_data]

RECURSIVE fill_provider_map(_, _)
fill_provider_map(m, providers_data) ==
    IF providers_data = <<>> THEN m
    ELSE LET p == Head(providers_data)
             m2 == IF p.id # "" /\ p.country # "" /\ p.country # NonString
                   THEN IF str_lower(p.id) \in DOMAIN m
                        THEN [m EXCEPT ![str_lower(p.id)] = p.country]
                        ELSE m @@ (str_lower(p.id) :> p.country)
                   ELSE m
         IN fill_provider_map(m2, Tail(providers_data))

load_providers_map(file) ==
    IF ~file.readable THEN EmptyDict
    ELSE fill_provider_map(EmptyDict, file.data)

\* ------------------------------------------ process_article_entities
\* a region counted as its first member only
RECURSIVE process_article_entities_first_member(_)
process_article_entities_first_member(ner_list) ==
    IF ner_list = <<>>
    THEN [location_entities |-> <<>>, other_entities |-> <<>>]
    ELSE LET entity == ner_list[Len(ner_list)]
             rest == process_article_entities_first_member(
                        SubSeq(ner_list, 1, Len(ner_list) - 1))
             country_code == get_country_code_for_location(entity.entity)
         IN IF entity.entity = "" THEN rest
            ELSE IF entity.label = "LOC"
            THEN [rest EXCEPT !.location_entities =
                     @ \o (IF country_code.codes = <<>> THEN <<>>
                           ELSE <<<<country_code.codes[1], entity.entity>>>>)]
            ELSE IF entity.label \in {"PER", "ORG", "MISC"}
            THEN [rest EXCEPT !.other_entities = Append(@, entity.entity)]
            ELSE rest

\* location_entities: a list of <<country code, entity name>>;
\* other_entities: a list of entity names
RECURSIVE process_article_entities(_)
process_article_entities(ner_list) ==
    IF ner_list = <<>>
    THEN [location_entities |-> <<>>, other_entities |-> <<>>]
    ELSE LET entity == ner_list[Len(ner_list)]
             rest == process_article_entities(SubSeq(ner_list, 1, Len(ner_list) - 1))
             country_code == get_country_code_for_location(entity.entity)
         IN IF entity.entity = "" THEN rest
            ELSE IF entity.label = "LOC"
            THEN [rest EXCEPT !.location_entities =
                     @ \o [i \in 1..Len(country_code.codes) |->
                              <<country_code.codes[i], entity.entity>>]]
            ELSE IF entity.label \in {"PER", "ORG", "MISC"}
            THEN [rest EXCEPT !.other_entities = Append(@, entity.entity)]
            ELSE rest

\* ----------------------------------------------- process_single_date
\* the minimum mention threshold of the dominant-entity distribution
MIN_MENTIONS == 2
\* the n of Counter.most_common(n)
TOP_N == 10
\* run.py line 137: the greatest length of an abbreviation
ABBREVIATION_MAX_LEN == 5
\* run.py line 303: the days of the week total
WEEK_DAYS == 7

EmptyForeignPress ==
    [countryCoverage |-> EmptyDict, countryCovering |-> EmptyDict,
     featuredRankings |-> <<>>, coveringRankings |-> <<>>]

\* the all-empty result of process_single_date
EmptyResult ==
    [importData |-> EmptyDict, exportData |-> EmptyDict, nerData |-> EmptyDict,
     TopEntitiesByCountry |-> EmptyDict, topNer |-> "",
     foreignPressData |-> EmptyForeignPress]

\* one article's contribution to ner_counts
RECURSIVE count_top_ner_other(_, _, _, _)
count_top_ner_other(counts, other_entities, source, top) ==
    IF other_entities = <<>> THEN counts
    ELSE count_top_ner_other(
             IF Head(other_entities) = top THEN DictAdd(counts, source, 1) ELSE counts,
             Tail(other_entities), source, top)

RECURSIVE count_top_ner_loc(_, _, _)
count_top_ner_loc(counts, location_entities, top) ==
    IF location_entities = <<>> THEN counts
    ELSE count_top_ner_loc(
             IF Head(location_entities)[2] = top
             THEN DictAdd(counts, Head(location_entities)[1], 1) ELSE counts,
             Tail(location_entities), top)

\* {loc[0] for loc in location_entities}
mentioned_country_codes(location_entities) ==
    {location_entities[i][1] : i \in DOMAIN location_entities}

\* without the test of line 320
foreign_codes_with_source(mentioned, source) == mentioned

\* the mentioned codes that pass `mentioned_code != source_country_code`
foreign_codes(mentioned, source) == {m \in mentioned : m # source}

\* without the test of line 331
related_codes_with_source(mentioned, source) == mentioned

\* the mentioned codes that pass `country_code != source_country_code`
related_codes(mentioned, source) == {m \in mentioned : m # source}

\* one event per article that mentions a foreign country
import_events_per_article(mentioned, source) ==
    IF foreign_codes(mentioned, source) = {} THEN 0 ELSE 1

\* one event for every mentioned code, the source included
import_events_with_source(mentioned, source) == Cardinality(mentioned)

\* the number of import (and export) events of one article: line 322 and
\* line 324 run once per mentioned code that passes the test of line 320
import_events(mentioned, source) == Cardinality(foreign_codes(mentioned, source))

\* d[k] += 1 for every k of S
RECURSIVE inc_each(_, _)
inc_each(d, S) ==
    IF S = {} THEN d
    ELSE LET k == CHOOSE x \in S : TRUE
         IN inc_each(DictAdd(d, k, 1), S \ {k})

\* import_counts[code] += 1 for every location entity, not every distinct code
RECURSIVE count_imports_per_span(_, _, _)
count_imports_per_span(imports, location_entities, source) ==
    IF location_entities = <<>> THEN imports
    ELSE count_imports_per_span(
             IF Head(location_entities)[1] # source
             THEN DictAdd(imports, Head(location_entities)[1], 1) ELSE imports,
             Tail(location_entities), source)

\* lines 312-321: import_counts[mentioned_code] += 1 for every distinct
\* mentioned code other than the source
count_imports(imports, location_entities, source) ==
    inc_each(imports, foreign_codes(mentioned_country_codes(location_entities), source))

\* d[k][source] += 1 for every k of S
RECURSIVE inc_each_row(_, _, _)
inc_each_row(d, S, source) ==
    IF S = {} THEN d
    ELSE LET k == CHOOSE x \in S : TRUE
         IN inc_each_row(DictAdd2(d, k, source, 1), S \ {k}, source)

\* d[k][source] += 1 written where d[source][k] += 1 is meant
RECURSIVE inc_each_col_transposed(_, _, _)
inc_each_col_transposed(d, S, source) ==
    IF S = {} THEN d
    ELSE LET k == CHOOSE x \in S : TRUE
         IN inc_each_col_transposed(DictAdd2(d, k, source, 1), S \ {k}, source)

\* d[source][k] += 1 for every k of S
RECURSIVE inc_each_col(_, _, _)
inc_each_col(d, S, source) ==
    IF S = {} THEN d
    ELSE LET k == CHOOSE x \in S : TRUE
         IN inc_each_col(DictAdd2(d, source, k, 1), S \ {k}, source)

\* entity_counter[entity] += 1 for every entity of the list
RECURSIVE count_entities(_, _)
count_entities(entity_counter, other_entities) ==
    IF other_entities = <<>> THEN entity_counter
    ELSE count_entities(DictAdd(entity_counter, Head(other_entities), 1),
                        Tail(other_entities))

\* country_related_entities[code] (created when absent) gets the
\* article's other entities, for every code of S
RECURSIVE relate_entities(_, _, _)
relate_entities(d, S, other_entities) ==
    IF S = {} THEN d
    ELSE LET k == CHOOSE x \in S : TRUE
             entity_counter == DictGet(d, k, EmptyDict)
             counted == count_entities(entity_counter, other_entities)
             d2 == IF k \in DOMAIN d THEN [d EXCEPT ![k] = counted]
                   ELSE d @@ (k :> counted)
         IN relate_entities(d2, S \ {k}, other_entities)

\* the index of the first unhashable entity name of the list, 0 if none
RECURSIVE first_unhashable(_, _)
first_unhashable(other_entities, i) ==
    IF i > Len(other_entities) THEN 0
    ELSE IF other_entities[i] = Unhashable THEN i
    ELSE first_unhashable(other_entities, i + 1)

\* one count per article of a known provider, not per distinct provider
count_providers_per_article(article_list, provider_map) ==
    LET known == {i \in DOMAIN article_list :
                     str_lower(article_list[i]) \in DOMAIN provider_map}
        codes == {provider_map[str_lower(article_list[i])] : i \in known}
    IN [code \in codes |->
           Cardinality({i \in known : provider_map[str_lower(article_list[i])] = code})]

\* providers_per_country: country -> number of distinct provider ids
count_providers(article_list, provider_map) ==
    LET ids == {str_lower(article_list[i]) : i \in DOMAIN article_list}
        known == {p \in ids : p \in DOMAIN provider_map}
        codes == {provider_map[p] : p \in known}
    IN [code \in codes |-> Cardinality({p \in known : provider_map[p] = code})]

\* without the test of line 362
normalized_import_data_unguarded(imports, total) ==
    [code \in all_codes |-> Quot(DictGet(imports, code, 0), total)]

normalized_import_data(imports, total) ==
    IF total > 0
    THEN [code \in all_codes |-> Quot(DictGet(imports, code, 0), total)]
    ELSE [code \in all_codes |-> RZero]

\* the raw export counts, not divided by the provider counts
export_ratios_raw(exports, ppc) ==
    [code \in all_codes |-> Quot(DictGet(exports, code, 0), 1)]

\* lines 369-377
export_ratios(exports, ppc) ==
    [code \in all_codes |->
        IF DictGet(ppc, code, 0) > 0
        THEN Quot(DictGet(exports, code, 0), DictGet(ppc, code, 0))
        ELSE RZero]

\* ratio / sum(ratios) when the sum is positive, else all zero
normalize_ratios(ratios) ==
    LET total == RSumValues(ratios)
    IN IF RPos(total)
       THEN [code \in DOMAIN ratios |-> RDiv(ratios[code], total)]
       ELSE [code \in all_codes |-> RZero]

normalized_export_data(exports, ppc) == normalize_ratios(export_ratios(exports, ppc))

\* without the MIN_MENTIONS floor of line 392
ner_ratios_unfloored(ners, ppc) ==
    [code \in all_codes |->
        IF DictGet(ppc, code, 0) > 0
        THEN Quot(DictGet(ners, code, 0), DictGet(ppc, code, 0))
        ELSE RZero]

\* lines 388-396: mentions over providers, 0 under MIN_MENTIONS mentions
ner_ratios(ners, ppc) ==
    [code \in all_codes |->
        IF DictGet(ppc, code, 0) > 0 /\ DictGet(ners, code, 0) >= MIN_MENTIONS
        THEN Quot(DictGet(ners, code, 0), DictGet(ppc, code, 0))
        ELSE RZero]

normalized_ner_data(ners, ppc) == normalize_ratios(ner_ratios(ners, ppc))

\* the keys of a dict of rationals, greatest value first
RECURSIVE sort_desc(_)
sort_desc(d) ==
    IF DOMAIN d = {} THEN <<>>
    ELSE LET top == CHOOSE k \in DOMAIN d :
                        \A j \in DOMAIN d : ~RGreater(d[j], d[k])
         IN <<top>> \o sort_desc([x \in DOMAIN d \ {top} |-> d[x]])

\* Counter.most_common(n): the n entities of greatest count, greatest first
most_common(entity_counter, n) ==
    LET order == sort_desc([e \in DOMAIN entity_counter |-> <<entity_counter[e], 1>>])
    IN SubSeq(order, 1, IF Len(order) < n THEN Len(order) ELSE n)

RECURSIVE sum_counts(_, _)
sum_counts(entity_counter, names) ==
    IF names = <<>> THEN 0
    ELSE entity_counter[Head(names)] + sum_counts(entity_counter, Tail(names))

\* the shares taken over the whole table, not over the top 10
format_top_entities_full_total(entity_counter) ==
    LET top_10 == most_common(entity_counter, TOP_N)
        total_count == SumValues(entity_counter)
    IN [i \in DOMAIN top_10 |->
           [entity |-> top_10[i], count |-> entity_counter[top_10[i]],
            share |-> Quot(entity_counter[top_10[i]], total_count)]]

\* lines 408-421: the top 10 with their counts and shares
format_top_entities(entity_counter) ==
    LET top_10 == most_common(entity_counter, TOP_N)
        total_count == sum_counts(entity_counter, top_10)
    IN [i \in DOMAIN top_10 |->
           [entity |-> top_10[i], count |-> entity_counter[top_10[i]],
            share |-> Quot(entity_counter[top_10[i]], total_count)]]

country_top_entities(related) ==
    LET kept == {c \in DOMAIN related :
                    /\ DOMAIN related[c] # {}
                    /\ sum_counts(related[c], most_common(related[c], TOP_N)) > 0}
    IN [c \in kept |-> format_top_entities(related[c])]

\* ---------------------------------------- process_foreign_press_data
\* providers_per_country.get(code, 1)
provider_count_or_1(ppc, code) == DictGet(ppc, code, 1)

\* the raw counts of coverage_matrix[country], not divided
coverage_ratios_undivided(coverage_matrix, ppc, country) ==
    IF country \in DOMAIN coverage_matrix
    THEN [covering_country \in DOMAIN coverage_matrix[country] |->
             Quot(coverage_matrix[country][covering_country], 1)]
    ELSE EmptyDict

\* covered_by before its renormalization: coverage_matrix[country] with
\* each count divided by the covering country's provider count
coverage_ratios(coverage_matrix, ppc, country) ==
    IF country \in DOMAIN coverage_matrix
    THEN [covering_country \in DOMAIN coverage_matrix[country] |->
             Quot(coverage_matrix[country][covering_country],
                  provider_count_or_1(ppc, covering_country))]
    ELSE EmptyDict

\* covering before its renormalization: covering_matrix[country] with
\* each count divided by the country's own provider count
covering_ratios(covering_matrix, ppc, country) ==
    IF country \in DOMAIN covering_matrix
    THEN [covered_country \in DOMAIN covering_matrix[country] |->
             Quot(covering_matrix[country][covered_country],
                  provider_count_or_1(ppc, country))]
    ELSE EmptyDict

\* the per-country renormalization: value / total when total > 0
renormalize(ratios) ==
    LET total == RSumValues(ratios)
    IN IF RPos(total) THEN [k \in DOMAIN ratios |-> RDiv(ratios[k], total)]
       ELSE ratios

\* totals divided by their sum when the sum is > 0
normalize_totals(totals) ==
    LET activity == RSumValues(totals)
    IN IF RPos(activity) THEN [k \in DOMAIN totals |-> RDiv(totals[k], activity)]
       ELSE totals

\* the ranking list of all countries, those of scalar 0 included
rankings_unfiltered(totals) ==
    LET order == sort_desc(totals)
    IN [i \in DOMAIN order |-> [countryCode |-> order[i], total |-> totals[order[i]]]]

\* the ranking list of the countries with a positive scalar
rankings(totals) ==
    LET positive == {k \in DOMAIN totals : RPos(totals[k])}
        order == sort_desc([k \in positive |-> totals[k]])
    IN [i \in DOMAIN order |-> [countryCode |-> order[i], total |-> totals[order[i]]]]

process_foreign_press_data(coverage_matrix, covering_matrix, ppc) ==
    LET original_total_coverage ==
            [country \in all_codes |->
                RSumValues(coverage_ratios(coverage_matrix, ppc, country))]
        original_total_covering ==
            [country \in all_codes |->
                RSumValues(covering_ratios(covering_matrix, ppc, country))]
        total_coverage == normalize_totals(original_total_coverage)
        total_covering == normalize_totals(original_total_covering)
    IN [countryCoverage |->
            [country \in all_codes |->
                [coveredBy |-> renormalize(coverage_ratios(coverage_matrix, ppc, country)),
                 totalCoverage |-> total_coverage[country]]],
        countryCovering |->
            [country \in all_codes |->
                [covering |-> renormalize(covering_ratios(covering_matrix, ppc, country)),
                 totalCovering |-> total_covering[country]]],
        featuredRankings |-> rankings(total_coverage),
        coveringRankings |-> rankings(total_covering)]

\* whether computing the result divided by zero somewhere
zero_division_in(result) ==
    \/ \E c \in DOMAIN result.importData : IsZeroDivision(result.importData[c])
    \/ \E c \in DOMAIN result.exportData : IsZeroDivision(result.exportData[c])
    \/ \E c \in DOMAIN result.nerData : IsZeroDivision(result.nerData[c])
    \/ \E c \in DOMAIN result.TopEntitiesByCountry :
          \E i \in DOMAIN result.TopEntitiesByCountry[c] :
             IsZeroDivision(result.TopEntitiesByCountry[c][i].share)
    \/ \E c \in DOMAIN result.foreignPressData.countryCoverage :
          LET row == result.foreignPressData.countryCoverage[c]
          IN \/ IsZeroDivision(row.totalCoverage)
             \/ \E b \in DOMAIN row.coveredBy : IsZeroDivision(row.coveredBy[b])
    \/ \E c \in DOMAIN result.foreignPressData.countryCovering :
          LET row == result.foreignPressData.countryCovering[c]
          IN \/ IsZeroDivision(row.totalCovering)
             \/ \E b \in DOMAIN row.covering : IsZeroDivision(row.covering[b])

\* the entries of a distribution with v >= 0
positive_entries_or_zero(d) ==
    [k \in {x \in DOMAIN d : RPos(d[x]) \/ d[x] = RZero} |-> d[k]]

\* the entries of a distribution with v > 0
positive_entries(d) == [k \in {x \in DOMAIN d : RPos(d[x])} |-> d[k]]

\* main's filtered_data
filter_data(result, top) ==
    [importData |-> positive_entries(result.importData),
     exportData |-> positive_entries(result.exportData),
     nerData |-> positive_entries(result.nerData),
     TopEntitiesByCountry |-> result.TopEntitiesByCountry,
     topNer |-> top,
     foreignPressData |-> result.foreignPressData]

\* -------------------------------------------------------------- state
VARIABLES
    providers_file,      \* providers.json: [readable, data]
    articles_file,       \* the current date's articles.json, by kind
    out_files,           \* date -> the content of map_<date>.json
    in_main,             \* process_single_date was called by main
    date_idx,            \* main: the position in dates_to_process
    processed_count, skipped_count,
    pc,                  \* the position in the code
    exc,                 \* the exception that left process_single_date
    top_ner,
    provider_country_map,
    articles,            \* [kind, items]: unbound, None or the "data" list read so far
    article,             \* the loop variable of the scan
    import_counts, export_counts, total_imports, total_exports,
    articles_per_country, ner_counts, country_related_entities,
    country_coverage_matrix, country_covering_matrix,
    processed_article_count, skipped_articles_no_country,
    providers_per_country, date_data, filtered_data,
    processed_articles,  \* run.py: the batch, as the list of its entity occurrences
    similar,             \* run.py: the pairs are_entities_similar holds of
    replacement_mappings, replacement_count,
    norm_runs,           \* the runs of global_entity_normalization so far
    gazetteer,           \* the module-level lookup tables of the resolver
    worker_input,        \* worker -> the "data" list of its date's articles.json
    workers,             \* worker -> the frame of its process_single_date call
    lookups,             \* the calls of get_country_code_for_location so far
    comparisons,         \* the calls of are_entities_similar so far
    date_folders,        \* folder name -> its articles.json, under public/data
    db                   \* db.json: [exists] and, once written, its content

norm_vars == <<processed_articles, similar, replacement_mappings,
               replacement_count, norm_runs>>
worker_vars == <<gazetteer, worker_input, workers>>
run_vars == <<comparisons, date_folders, db>>
env_vars == <<providers_file, in_main, top_ner, norm_vars, worker_vars, lookups, run_vars>>
main_vars == <<out_files, date_idx, processed_count, skipped_count, filtered_data>>
scan_vars == <<import_counts, export_counts, total_imports, total_exports,
               articles_per_country, ner_counts, country_related_entities,
               country_coverage_matrix, country_covering_matrix,
               skipped_articles_no_country>>
vars == <<providers_file, articles_file, out_files, in_main, date_idx,
          processed_count, skipped_count, pc, exc, top_ner,
          provider_country_map, articles, article,
          import_counts, export_counts, total_imports, total_exports,
          articles_per_country, ner_counts, country_related_entities,
          country_coverage_matrix, country_covering_matrix,
          processed_article_count, skipped_articles_no_country,
          providers_per_country, date_data, filtered_data, norm_vars,
          worker_vars, lookups,
          comparisons, date_folders, db>>

\* for i in range(30) of main, cut to NumDates dates
dates_to_process == [i \in 1..NumDates |-> i]

NoArticle == [providerId |-> "", ner |-> <<>>]
NoFile == [content |-> "absent", chunks |-> 0]
OldFile == [content |-> "old", chunks |-> NumChunks]

\* what an articles.json can be
FileKinds == {"absent", "invalid_json", "not_object", "data_null", "ok"}

AggInit(registries, kinds, tops, main) ==
    /\ providers_file \in registries
    /\ in_main = main
    /\ top_ner \in tops
    /\ articles_file \in kinds
    /\ out_files \in [1..NumDates -> IF main THEN {NoFile, OldFile} ELSE {NoFile}]
    /\ date_idx = 1
    /\ processed_count = 0
    /\ skipped_count = 0
    /\ pc = IF main THEN "main_loop" ELSE "psd_start"
    /\ exc = "none"
    /\ provider_country_map = EmptyDict
    /\ articles = [kind |-> "unbound", items |-> <<>>]
    /\ article = NoArticle
    /\ import_counts = EmptyDict
    /\ export_counts = EmptyDict
    /\ total_imports = 0
    /\ total_exports = 0
    /\ articles_per_country = EmptyDict
    /\ ner_counts = EmptyDict
    /\ country_related_entities = EmptyDict
    /\ country_coverage_matrix = EmptyDict
    /\ country_covering_matrix = EmptyDict
    /\ processed_article_count = 0
    /\ skipped_articles_no_country = 0
    /\ providers_per_country = EmptyDict
    /\ date_data = EmptyResult
    /\ filtered_data = EmptyResult

\* no batch is being normalized
NormIdle ==
    /\ processed_articles = <<>>
    /\ similar = {}
    /\ replacement_mappings = EmptyDict
    /\ replacement_count = 0
    /\ norm_runs = 0

\* lines 17-79: the tables as the module builds them at import
StaticTables ==
    [REGION_COUNTRIES |-> REGION_COUNTRIES,
     COUNTRY_NAME_TO_ISO3 |-> COUNTRY_NAME_TO_ISO3,
     CITY_TO_COUNTRY |-> CITY_TO_COUNTRY]

\* no worker pool is running
WorkersIdle ==
    /\ gazetteer = StaticTables
    /\ worker_input = <<>>
    /\ workers = <<>>
    /\ lookups = <<>>

\* public/data without a db.json
NoDb == [exists |-> FALSE]

\* no entity strings are being compared and no db.json is being built
RunIdle ==
    /\ comparisons = <<>>
    /\ date_folders = <<>>
    /\ db = NoDb

InitWith(registries, kinds, tops, main) ==
    AggInit(registries, kinds, tops, main) /\ NormIdle /\ WorkersIdle /\ RunIdle

\* ------------------------------------- process_single_date: actions
\* Lines 225-283: the locals, the provider map, the two early returns,
\* and the open / json.load / daily_data.get("data", []) of the try block.
PsdStart ==
    /\ pc = "psd_start"
    /\ import_counts' = EmptyDict
    /\ export_counts' = EmptyDict
    /\ total_imports' = 0
    /\ total_exports' = 0
    /\ articles_per_country' = EmptyDict
    /\ ner_counts' = EmptyDict
    /\ country_related_entities' = EmptyDict
    /\ country_coverage_matrix' = EmptyDict
    /\ country_covering_matrix' = EmptyDict
    /\ processed_article_count' = 0
    /\ skipped_articles_no_country' = 0
    /\ providers_per_country' = EmptyDict
    /\ article' = NoArticle
    /\ provider_country_map' = load_providers_map(providers_file)
    /\ IF DOMAIN load_providers_map(providers_file) = {} \/ articles_file = "absent"
       THEN /\ date_data' = EmptyResult
            /\ articles' = [kind |-> "unbound", items |-> <<>>]
            /\ pc' = "returned"
       ELSE /\ date_data' = date_data
            /\ articles' =
                  CASE articles_file \in {"invalid_json", "not_object"} ->
                          [kind |-> "unbound", items |-> <<>>]
                    [] articles_file = "data_null" -> [kind |-> "None", items |-> <<>>]
                    [] OTHER -> [kind |-> "list", items |-> <<>>]
            /\ pc' = IF articles_file = "ok" THEN "scan" ELSE "after_try"
    /\ UNCHANGED <<env_vars, main_vars, articles_file, exc>>

\* Line 285: the loop takes the next article of the list; the list is
\* revealed as the loop reads it, and keeps each article's providerId.
NextArticleUpTo(a, n) ==
    /\ pc = "scan"
    /\ Len(articles.items) < n
    /\ article' = a
    /\ articles' = [articles EXCEPT !.items = Append(@, a.providerId)]
    /\ processed_article_count' = processed_article_count + 1
    /\ pc' = "article"
    /\ UNCHANGED <<env_vars, main_vars, scan_vars, articles_file, exc,
                   provider_country_map, providers_per_country, date_data>>

NextArticle(a) == NextArticleUpTo(a, MaxArticles)

\* Line 285: the list is exhausted.
EndOfArticles ==
    /\ pc = "scan"
    /\ pc' = "after_try"
    /\ UNCHANGED <<env_vars, main_vars, scan_vars, articles_file, exc,
                   provider_country_map, providers_per_country, date_data,
                   articles, article, processed_article_count>>

\* the provider ids of the articles after one whose scan raised
RestProviderIds == {"lemonde", "spiegel"}

\* without the .lower() of line 287
source_of_case_sensitive(a, provider_map) == DictGet(provider_map, a.providerId, None)

\* lines 287-288: provider_country_map.get(article.get("providerId", "").lower())
source_of(a, provider_map) == DictGet(provider_map, str_lower(a.providerId), None)

\* Lines 287-334: the body of the loop for the article taken.
ProcessArticle ==
    /\ pc = "article"
    /\ article' = NoArticle
    /\ LET source_country_code == source_of(article, provider_country_map)
           entities == process_article_entities(article.ner)
           location_entities == entities.location_entities
           other_entities == entities.other_entities
           mentioned == mentioned_country_codes(location_entities)
           foreign == foreign_codes(mentioned, source_country_code)
           related == related_codes(mentioned, source_country_code)
           bad == first_unhashable(other_entities, 1)
       IN IF article.providerId = NonString
          THEN \* article.get(...).lower() raises; the except of line 337 catches
               /\ pc' = "after_try"
               /\ UNCHANGED <<scan_vars, articles>>
          ELSE IF source_country_code = None
          THEN /\ skipped_articles_no_country' = skipped_articles_no_country + 1
               /\ pc' = "scan"
               /\ UNCHANGED <<import_counts, export_counts, total_imports,
                              total_exports, articles_per_country, ner_counts,
                              country_related_entities, country_coverage_matrix,
                              country_covering_matrix, articles>>
          ELSE /\ articles_per_country' = DictAdd(articles_per_country, source_country_code, 1)
               /\ ner_counts' =
                     count_top_ner_loc(
                        count_top_ner_other(ner_counts, other_entities,
                                            source_country_code, top_ner),
                        location_entities, top_ner)
               /\ UNCHANGED skipped_articles_no_country
               /\ IF location_entities = <<>>
                  THEN /\ pc' = "scan"
                       /\ UNCHANGED <<import_counts, export_counts, total_imports,
                                      total_exports, country_related_entities,
                                      country_coverage_matrix,
                                      country_covering_matrix, articles>>
                  ELSE /\ import_counts' =
                             count_imports(import_counts, location_entities,
                                           source_country_code)
                       /\ total_imports' =
                             total_imports + import_events(mentioned, source_country_code)
                       /\ export_counts' =
                             IF foreign = {} THEN export_counts
                             ELSE DictAdd(export_counts, source_country_code,
                                          Cardinality(foreign))
                       /\ total_exports' =
                             total_exports + import_events(mentioned, source_country_code)
                       /\ country_coverage_matrix' =
                             inc_each_row(country_coverage_matrix, foreign,
                                          source_country_code)
                       /\ country_covering_matrix' =
                             inc_each_col(country_covering_matrix, foreign,
                                          source_country_code)
                       /\ IF related # {} /\ bad # 0
                          THEN \* entity_counter[entity] raises TypeError at the
                               \* first foreign code; the except catches; the
                               \* list may hold further articles
                               /\ \E first \in related :
                                     country_related_entities' =
                                        relate_entities(country_related_entities, {first},
                                                        SubSeq(other_entities, 1, bad - 1))
                               /\ \E rest \in SeqsUpTo(RestProviderIds,
                                                       MaxArticles - Len(articles.items)) :
                                     articles' = [articles EXCEPT !.items = @ \o rest]
                               /\ pc' = "after_try"
                          ELSE /\ country_related_entities' =
                                     relate_entities(country_related_entities, related,
                                                     other_entities)
                               /\ articles' = articles
                               /\ pc' = "scan"
    /\ UNCHANGED <<env_vars, main_vars, articles_file, exc, provider_country_map,
                   providers_per_country, date_data, processed_article_count>>

\* the result of lines 344-438 from the accumulated counts
compute_result(imports, total, exports, ners, related, coverage, covering, ppc, top) ==
    [importData |-> normalized_import_data(imports, total),
     exportData |-> normalized_export_data(exports, ppc),
     nerData |-> normalized_ner_data(ners, ppc),
     TopEntitiesByCountry |-> country_top_entities(related),
     topNer |-> top,
     foreignPressData |-> process_foreign_press_data(coverage, covering, ppc)]

\* Lines 340-438: the second loop over articles (which raises when the
\* try block left articles unbound or not iterable, or when an article is
\* not an object with a string providerId), the normalizations, the return.
PsdFinish ==
    /\ pc = "after_try"
    /\ LET ppc == count_providers(articles.items, provider_country_map)
           result == compute_result(import_counts, total_imports, export_counts,
                                    ner_counts, country_related_entities,
                                    country_coverage_matrix, country_covering_matrix,
                                    ppc, top_ner)
       IN IF articles.kind = "unbound"
          THEN /\ exc' = "UnboundLocalError" /\ pc' = "raised"
               /\ UNCHANGED <<providers_per_country, date_data>>
          ELSE IF articles.kind = "None"
          THEN /\ exc' = "TypeError" /\ pc' = "raised"
               /\ UNCHANGED <<providers_per_country, date_data>>
          ELSE IF NonString \in SeqToSet(articles.items)
          THEN /\ exc' = "AttributeError" /\ pc' = "raised"
               /\ UNCHANGED <<providers_per_country, date_data>>
          ELSE /\ providers_per_country' = ppc
               /\ IF zero_division_in(result)
                  THEN /\ exc' = "ZeroDivisionError" /\ pc' = "raised"
                       /\ date_data' = date_data
                  ELSE /\ exc' = exc /\ pc' = "returned"
                       /\ date_data' = result
    /\ UNCHANGED <<env_vars, main_vars, scan_vars, articles_file,
                   provider_country_map, articles, article, processed_article_count>>

\* ------------------------------------------------------ main: actions
\* Lines 573-584: the loop head and the os.path.exists check; the
\* date's articles.json is looked at here for the first time.
MainLoop ==
    /\ pc = "main_loop"
    /\ IF date_idx > Len(dates_to_process)
       THEN /\ pc' = "main_done"
            /\ UNCHANGED <<articles_file, skipped_count, date_idx>>
       ELSE \E kind \in FileKinds :
               /\ articles_file' = kind
               /\ IF kind = "absent"
                  THEN /\ skipped_count' = skipped_count + 1
                       /\ date_idx' = date_idx + 1
                       /\ pc' = "main_loop"
                  ELSE /\ pc' = "psd_start"
                       /\ UNCHANGED <<skipped_count, date_idx>>
    /\ UNCHANGED <<env_vars, out_files, processed_count, filtered_data, exc,
                   provider_country_map, articles, article, scan_vars,
                   processed_article_count, providers_per_country, date_data>>

\* Lines 586-604: filtered_data, the file name, open(output_file_path, 'w'),
\* which truncates the file or raises.
MainOpenOutput ==
    /\ pc = "returned"
    /\ in_main
    /\ filtered_data' = filter_data(date_data, top_ner)
    /\ \E opened \in BOOLEAN :
          IF opened
          THEN /\ out_files' = [out_files EXCEPT ![dates_to_process[date_idx]] =
                                   [content |-> "new", chunks |-> 0]]
               /\ pc' = "writing"
               /\ UNCHANGED <<skipped_count, date_idx>>
          ELSE /\ skipped_count' = skipped_count + 1
               /\ date_idx' = date_idx + 1
               /\ pc' = "main_loop"
               /\ UNCHANGED out_files
    /\ UNCHANGED <<env_vars, articles_file, processed_count, exc,
                   provider_country_map, articles, article, scan_vars,
                   processed_article_count, providers_per_country, date_data>>

\* Lines 605-611: json.dump writes the snapshot chunk by chunk into the
\* open file; the last chunk ends the with block. A write that raises
\* leaves what was written and counts the date as skipped.
MainWrite ==
    /\ pc = "writing"
    /\ LET d == dates_to_process[date_idx]
       IN \E written \in BOOLEAN :
             IF written
             THEN /\ out_files' = [out_files EXCEPT ![d].chunks = @ + 1]
                  /\ IF out_files[d].chunks + 1 = NumChunks
                     THEN /\ processed_count' = processed_count + 1
                          /\ date_idx' = date_idx + 1
                          /\ pc' = "main_loop"
                     ELSE UNCHANGED <<processed_count, date_idx, pc>>
                  /\ UNCHANGED skipped_count
             ELSE /\ skipped_count' = skipped_count + 1
                  /\ date_idx' = date_idx + 1
                  /\ pc' = "main_loop"
                  /\ UNCHANGED <<out_files, processed_count>>
    /\ UNCHANGED <<env_vars, articles_file, filtered_data, exc,
                   provider_country_map, articles, article, scan_vars,
                   processed_article_count, providers_per_country, date_data>>

\* The process is killed while main is about to write or is writing.
Crash ==
    /\ in_main
    /\ pc \in {"returned", "writing"}
    /\ pc' = "killed"
    /\ UNCHANGED <<env_vars, main_vars, articles_file, exc,
                   provider_country_map, articles, article, scan_vars,
                   processed_article_count, providers_per_country, date_data>>

\* ------------------------- process_single_date calls run side by side
\* Every call of process_single_date has its own frame: the locals of
\* lines 225-277 are created by the call, and the only module-level state
\* the call reads is the gazetteer tables and providers.json.
agg_vars == <<articles_file, pc, exc, provider_country_map, articles, article,
              processed_article_count, providers_per_country, date_data,
              scan_vars, main_vars>>

\* lines 225-239 and 276-277: the locals of a call
FreshLocals ==
    [import_counts |-> EmptyDict, export_counts |-> EmptyDict,
     total_imports |-> 0, total_exports |-> 0,
     articles_per_country |-> EmptyDict, ner_counts |-> EmptyDict,
     country_related_entities |-> EmptyDict,
     country_coverage_matrix |-> EmptyDict,
     country_covering_matrix |-> EmptyDict,
     processed_article_count |-> 0, skipped_articles_no_country |-> 0]

\* lines 286-334 on the locals l of a call, for a well-formed article
scan_article(l, a, provider_map, top) ==
    LET source_country_code == source_of(a, provider_map)
        entities == process_article_entities(a.ner)
        location_entities == entities.location_entities
        other_entities == entities.other_entities
        mentioned == mentioned_country_codes(location_entities)
        foreign == foreign_codes(mentioned, source_country_code)
        related == related_codes(mentioned, source_country_code)
        read == [l EXCEPT !.processed_article_count = @ + 1]
        counted ==
            [read EXCEPT
                !.articles_per_country = DictAdd(@, source_country_code, 1),
                !.ner_counts =
                    count_top_ner_loc(
                       count_top_ner_other(@, other_entities, source_country_code, top),
                       location_entities, top)]
    IN IF source_country_code = None
       THEN [read EXCEPT !.skipped_articles_no_country = @ + 1]
       ELSE IF location_entities = <<>> THEN counted
       ELSE [counted EXCEPT
                !.import_counts = count_imports(@, location_entities, source_country_code),
                !.total_imports = @ + import_events(mentioned, source_country_code),
                !.export_counts =
                    IF foreign = {} THEN @
                    ELSE DictAdd(@, source_country_code, Cardinality(foreign)),
                !.total_exports = @ + import_events(mentioned, source_country_code),
                !.country_coverage_matrix = inc_each_row(@, foreign, source_country_code),
                !.country_covering_matrix = inc_each_col(@, foreign, source_country_code),
                !.country_related_entities = relate_entities(@, related, other_entities)]

\* a lookup that also remembers the code it found in CITY_TO_COUNTRY
gazetteer_after_lookup_cached(tables, location_name) ==
    LET found == get_country_code_for_location(location_name)
    IN IF found.kind = "str"
       THEN [tables EXCEPT !.CITY_TO_COUNTRY =
                @ @@ (str_lower(location_name) :> found.codes[1])]
       ELSE tables

\* lines 91-126: the tables after get_country_code_for_location(location_name);
\* the function assigns to no module-level name and calls no method of a table
gazetteer_after_lookup(tables, location_name) == tables

\* lines 156-173: the tables after the lookups of one article's LOC entities
RECURSIVE gazetteer_after_article(_, _)
gazetteer_after_article(tables, ner_list) ==
    IF ner_list = <<>> THEN tables
    ELSE LET entity == Head(ner_list)
             after == IF entity.entity # "" /\ entity.label = "LOC"
                      THEN gazetteer_after_lookup(tables, entity.entity)
                      ELSE tables
         IN gazetteer_after_article(after, Tail(ner_list))

\* Lines 225-283 in worker w: the locals, the provider map, the early
\* return, the read of the date's file.
WorkerStart(w) ==
    /\ workers[w].pc = "psd_start"
    /\ LET provider_map == load_providers_map(providers_file)
       IN workers' = [workers EXCEPT ![w] =
             [pc |-> IF DOMAIN provider_map = {} THEN "returned" ELSE "scan",
              provider_country_map |-> provider_map,
              locals |-> FreshLocals,
              date_data |-> EmptyResult]]
    /\ UNCHANGED <<gazetteer, worker_input, providers_file, in_main, top_ner,
                   norm_vars, lookups, run_vars, agg_vars>>

\* Lines 285-334 in worker w: one turn of the loop.
WorkerScan(w) ==
    /\ workers[w].pc = "scan"
    /\ workers[w].locals.processed_article_count < Len(worker_input[w])
    /\ LET a == worker_input[w][workers[w].locals.processed_article_count + 1]
       IN /\ workers' = [workers EXCEPT ![w].locals =
                            scan_article(@, a, workers[w].provider_country_map, top_ner)]
          /\ gazetteer' = gazetteer_after_article(gazetteer, a.ner)
    /\ UNCHANGED <<worker_input, providers_file, in_main, top_ner, norm_vars, lookups,
                   run_vars, agg_vars>>

\* Lines 340-438 in worker w: the provider counts, the normalizations, the
\* return.
WorkerFinish(w) ==
    /\ workers[w].pc = "scan"
    /\ workers[w].locals.processed_article_count = Len(worker_input[w])
    /\ LET l == workers[w].locals
           ids == [i \in DOMAIN worker_input[w] |-> worker_input[w][i].providerId]
           ppc == count_providers(ids, workers[w].provider_country_map)
       IN workers' = [workers EXCEPT
             ![w].pc = "returned",
             ![w].date_data =
                 compute_result(l.import_counts, l.total_imports, l.export_counts,
                                l.ner_counts, l.country_related_entities,
                                l.country_coverage_matrix, l.country_covering_matrix,
                                ppc, top_ner)]
    /\ UNCHANGED <<gazetteer, worker_input, providers_file, in_main, top_ner,
                   norm_vars, lookups, run_vars, agg_vars>>

\* --------------------------------- get_country_code_for_location: calls
\* One call of get_country_code_for_location, as process_article_entities
\* makes for a LOC entity (line 167).
Resolve(location_name) ==
    /\ Len(lookups) < MaxLookups
    /\ lookups' = Append(lookups,
                         [location_name |-> location_name,
                          country_code |-> get_country_code_for_location(location_name)])
    /\ UNCHANGED <<providers_file, in_main, top_ner, norm_vars, worker_vars, run_vars,
                   agg_vars>>

\* ---------------------------------- run.py: global_entity_normalization
\* are_entities_similar on the entity texts of the batch: the pairs it
\* holds of are an input of the run
are_entities_similar(entity1, entity2) == <<entity1, entity2>> \in similar

\* lines 27-32: the keys of entity_counts_by_label[label], in the order of
\* their first occurrence
RECURSIVE entities_list_of(_, _)
entities_list_of(batch, label) ==
    IF batch = <<>> THEN <<>>
    ELSE LET before == entities_list_of(SubSeq(batch, 1, Len(batch) - 1), label)
             last == batch[Len(batch)]
             entity_text == str_strip(last.entity)
         IN IF last.label = label /\ entity_text # ""
                  /\ entity_text \notin SeqToSet(before)
            THEN Append(before, entity_text)
            ELSE before

\* lines 27-32: entity_counts_by_label[label][entity_text]
entity_count(batch, label, text) ==
    Cardinality({i \in DOMAIN batch :
                    batch[i].label = label /\ str_strip(batch[i].entity) = text})

\* the group grown through its members: the seed, then every other
\* unprocessed entity similar to the seed or to an entity similar to it
similar_group_of_transitive(entities_list, i, processed_entities) ==
    LET near == {j \in DOMAIN entities_list :
                    /\ entities_list[j] \notin processed_entities
                    /\ are_entities_similar(entities_list[i], entities_list[j])}
        others == {j \in DOMAIN entities_list :
                      /\ j # i
                      /\ entities_list[j] \notin processed_entities
                      /\ \E k \in near :
                            are_entities_similar(entities_list[k], entities_list[j])}
        RECURSIVE collect(_)
        collect(j) ==
            IF j > Len(entities_list) THEN <<>>
            ELSE (IF j \in others THEN <<entities_list[j]>> ELSE <<>>) \o collect(j + 1)
    IN <<entities_list[i]>> \o collect(1)

\* lines 47-53: the seed, then every other unprocessed entity similar to it
similar_group_of(entities_list, i, processed_entities) ==
    LET others == {j \in DOMAIN entities_list :
                      /\ j # i
                      /\ entities_list[j] \notin processed_entities
                      /\ are_entities_similar(entities_list[i], entities_list[j])}
        RECURSIVE collect(_)
        collect(j) ==
            IF j > Len(entities_list) THEN <<>>
            ELSE (IF j \in others THEN <<entities_list[j]>> ELSE <<>>) \o collect(j + 1)
    IN <<entities_list[i]>> \o collect(1)

\* the seed of the group taken for its canonical form
canonical_of_seed(group, batch, label) == group[1]

\* lines 58-61: the first entity of the group, after a stable sort by
\* count, greatest first
canonical_of(group, batch, label) ==
    LET best == CHOOSE i \in DOMAIN group :
                   /\ \A j \in DOMAIN group :
                         entity_count(batch, label, group[j])
                            <= entity_count(batch, label, group[i])
                   /\ \A j \in 1..(i - 1) :
                         entity_count(batch, label, group[j])
                            < entity_count(batch, label, group[i])
    IN group[best]

\* every member of a group mapped, the canonical one too
RECURSIVE label_mappings_all_members(_, _, _, _, _, _)
label_mappings_all_members(batch, label, entities_list, i, processed_entities, mappings) ==
    IF i > Len(entities_list) THEN mappings
    ELSE IF entities_list[i] \in processed_entities
    THEN label_mappings_all_members(batch, label, entities_list, i + 1,
                                    processed_entities, mappings)
    ELSE LET similar_group == similar_group_of(entities_list, i, processed_entities)
             canonical_entity == canonical_of(similar_group, batch, label)
         IN IF Len(similar_group) > 1
            THEN label_mappings_all_members(
                     batch, label, entities_list, i + 1,
                     processed_entities \cup SeqToSet(similar_group),
                     mappings @@ [key \in {<<v, label>> : v \in SeqToSet(similar_group)}
                                     |-> canonical_entity])
            ELSE label_mappings_all_members(batch, label, entities_list, i + 1,
                                            processed_entities \cup {entities_list[i]},
                                            mappings)

\* lines 42-76: the replacement mappings of one label, as a function from
\* <<entity, label>> to the canonical entity
RECURSIVE label_mappings(_, _, _, _, _, _)
label_mappings(batch, label, entities_list, i, processed_entities, mappings) ==
    IF i > Len(entities_list) THEN mappings
    ELSE IF entities_list[i] \in processed_entities
    THEN label_mappings(batch, label, entities_list, i + 1, processed_entities, mappings)
    ELSE LET similar_group == similar_group_of(entities_list, i, processed_entities)
             canonical_entity == canonical_of(similar_group, batch, label)
             variants == SeqToSet(similar_group) \ {canonical_entity}
         IN IF Len(similar_group) > 1
            THEN label_mappings(batch, label, entities_list, i + 1,
                                processed_entities \cup SeqToSet(similar_group),
                                mappings @@ [key \in {<<v, label>> : v \in variants}
                                                |-> canonical_entity])
            ELSE label_mappings(batch, label, entities_list, i + 1,
                                processed_entities \cup {entities_list[i]}, mappings)

\* lines 35-76: the replacement mappings of all labels of the batch
RECURSIVE all_mappings(_, _)
all_mappings(batch, labels) ==
    IF labels = {} THEN EmptyDict
    ELSE LET label == CHOOSE l \in labels : TRUE
         IN label_mappings(batch, label, entities_list_of(batch, label), 1, {}, EmptyDict)
               @@ all_mappings(batch, labels \ {label})

build_mappings(batch) == all_mappings(batch, {batch[i].label : i \in DOMAIN batch})

\* lines 80-86: the batch with every occurrence whose (entity, label) is a
\* key of the mappings rewritten
apply_mappings(batch, mappings) ==
    [i \in DOMAIN batch |->
        IF <<batch[i].entity, batch[i].label>> \in DOMAIN mappings
        THEN [batch[i] EXCEPT !.entity = mappings[<<batch[i].entity, batch[i].label>>]]
        ELSE batch[i]]

\* One call of global_entity_normalization on the batch.
GlobalEntityNormalization ==
    /\ norm_runs < MaxRuns
    /\ LET mappings == build_mappings(processed_articles)
       IN /\ replacement_mappings' = mappings
          /\ processed_articles' = apply_mappings(processed_articles, mappings)
          /\ replacement_count' =
                Cardinality({i \in DOMAIN processed_articles :
                                <<processed_articles[i].entity,
                                  processed_articles[i].label>> \in DOMAIN mappings})
    /\ norm_runs' = norm_runs + 1
    /\ UNCHANGED <<similar, providers_file, in_main, top_ner, worker_vars, lookups,
                   run_vars, main_vars, scan_vars,
                   articles_file, exc, pc, provider_country_map, articles, article,
                   processed_article_count, providers_per_country, date_data>>

\* ------------------------------------ run.py: are_entities_similar
\* Entity strings character by character, as sequences of one-character
\* strings.
LOWERCASE == <<"a", "b", "c", "d", "e", "f", "g", "h", "i", "j", "k", "l", "m",
               "n", "o", "p", "q", "r", "s", "t", "u", "v", "w", "x", "y", "z">>
UPPERCASE == <<"A", "B", "C", "D", "E", "F", "G", "H", "I", "J", "K", "L", "M",
               "N", "O", "P", "Q", "R", "S", "T", "U", "V", "W", "X", "Y", "Z">>

\* str.lower() and str.upper()
lower(s) ==
    [i \in DOMAIN s |->
        IF \E k \in DOMAIN UPPERCASE : UPPERCASE[k] = s[i]
        THEN LOWERCASE[CHOOSE k \in DOMAIN UPPERCASE : UPPERCASE[k] = s[i]]
        ELSE s[i]]

upper(s) ==
    [i \in DOMAIN s |->
        IF \E k \in DOMAIN LOWERCASE : LOWERCASE[k] = s[i]
        THEN UPPERCASE[CHOOSE k \in DOMAIN LOWERCASE : LOWERCASE[k] = s[i]]
        ELSE s[i]]

\* str.rstrip(chars) and str.strip() (the whitespace of the model is " ")
RECURSIVE rstrip(_, _)
rstrip(s, chars) ==
    IF s # <<>> /\ s[Len(s)] \in chars THEN rstrip(SubSeq(s, 1, Len(s) - 1), chars) ELSE s

RECURSIVE lstrip(_, _)
lstrip(s, chars) ==
    IF s # <<>> /\ Head(s) \in chars THEN lstrip(Tail(s), chars) ELSE s

strip(s) == lstrip(rstrip(s, {" "}), {" "})

\* str.replace(char, '')
replace_with_nothing(s, char) == SelectSeq(s, LAMBDA c : c # char)

\* str.split(): the maximal runs of non-whitespace characters
RECURSIVE split(_)
split(s) ==
    LET t == lstrip(s, {" "})
        n == IF \E i \in DOMAIN t : t[i] = " "
             THEN (CHOOSE i \in DOMAIN t : t[i] = " " /\ \A j \in 1..(i - 1) : t[j] # " ") - 1
             ELSE Len(t)
    IN IF t = <<>> THEN <<>>
       ELSE <<SubSeq(t, 1, n)>> \o split(SubSeq(t, n + 1, Len(t)))

\* line 113: re.search(r'\b' + re.escape(shorter) + r'\b', longer); \w is
\* a letter of the model, \b holds before position k when exactly one of
\* the characters k - 1 and k is a \w (k = Len(s) + 1: at the end)
re_search_whole_words(shorter, longer) ==
    LET is_word_char(c) ==
            \/ \E k \in DOMAIN LOWERCASE : LOWERCASE[k] = c
            \/ \E k \in DOMAIN UPPERCASE : UPPERCASE[k] = c
        word_boundary(k) ==
            (k - 1 \in DOMAIN longer /\ is_word_char(longer[k - 1]))
               # (k \in DOMAIN longer /\ is_word_char(longer[k]))
    IN \E k \in 1..(Len(longer) - Len(shorter) + 1) :
          /\ SubSeq(longer, k, k + Len(shorter) - 1) = shorter
          /\ word_boundary(k)
          /\ word_boundary(k + Len(shorter))

\* lines 144-170
are_similar_person_names(name1, name2) ==
    LET parts_of(name) == [i \in DOMAIN split(name) |-> lower(rstrip(split(name)[i], {"."}))]
        parts1 == parts_of(name1)
        parts2 == parts_of(name2)
        significant_parts1 == SelectSeq(parts1, LAMBDA part : Len(part) > 1)
        significant_parts2 == SelectSeq(parts2, LAMBDA part : Len(part) > 1)
    IN \/ significant_parts1 = significant_parts2
       \/ /\ \/ SeqToSet(significant_parts1) \subseteq SeqToSet(parts2)
             \/ SeqToSet(significant_parts2) \subseteq SeqToSet(parts1)
          /\ Len(significant_parts1) >= 2
          /\ Len(significant_parts2) >= 2
          /\ significant_parts1[1] = significant_parts2[1]
          /\ significant_parts1[Len(significant_parts1)]
                = significant_parts2[Len(significant_parts2)]

\* lines 172-197
is_likely_abbreviation(short_entity, long_entity) ==
    LET short_clean == replace_with_nothing(replace_with_nothing(upper(short_entity), "."), " ")
        long_words == split(long_entity)
        skip_words == {<<"o", "f">>, <<"t", "h", "e">>, <<"a", "n", "d">>, <<"i", "n">>,
                       <<"f", "o", "r">>, <<"t", "o">>, <<"w", "i", "t", "h">>}
        significant_words == SelectSeq(long_words, LAMBDA word : lower(word) \notin skip_words)
        initials_match(words) ==
            \A i \in DOMAIN short_clean : short_clean[i] = upper(words[i])[1]
    IN IF Len(short_clean) = Len(long_words)
       THEN initials_match(long_words)
       ELSE /\ Len(short_clean) = Len(significant_words)
            /\ initials_match(significant_words)

\* lines 95-142, on two entity strings
are_entities_similar_strings(entity1, entity2) ==
    LET e1_lower == strip(lower(entity1))
        e2_lower == strip(lower(entity2))
        e1_shorter == Len(e1_lower) < Len(e2_lower)
        shorter == IF e1_shorter THEN e1_lower ELSE e2_lower
        longer == IF e1_shorter THEN e2_lower ELSE e1_lower
        shorter_entity == IF e1_shorter THEN entity1 ELSE entity2
        longer_entity == IF e1_shorter THEN entity2 ELSE entity1
        shorter_parts == split(shorter)
        longer_parts == split(longer)
        overlap == SeqToSet(shorter_parts) \cap SeqToSet(longer_parts)
    IN \/ e1_lower = e2_lower
       \/ /\ re_search_whole_words(shorter, longer)
          /\ \/ Len(longer_parts) <= Len(shorter_parts) + 2
             \/ Cardinality(overlap) >= Len(shorter_parts)
       \/ are_similar_person_names(entity1, entity2)
       \/ /\ Len(shorter) <= ABBREVIATION_MAX_LEN
          /\ Len(longer) > ABBREVIATION_MAX_LEN
          /\ is_likely_abbreviation(shorter_entity, longer_entity)

\* One call of are_entities_similar, as global_entity_normalization makes
\* for a seed and another entity of its label (line 52).
Compare(entity1, entity2) ==
    /\ Len(comparisons) < MaxComparisons
    /\ comparisons' = Append(comparisons,
                             [entity1 |-> entity1, entity2 |-> entity2,
                              similar |-> are_entities_similar_strings(entity1, entity2)])
    /\ UNCHANGED <<providers_file, in_main, top_ner, norm_vars, worker_vars, lookups,
                   date_folders, db, agg_vars>>

\* ------------------------------- run.py / populate_db.py: db.json
DIGITS == <<"0", "1", "2", "3", "4", "5", "6", "7", "8", "9">>

\* Python's < on two strings: the first differing character decides (by
\* its code point: "." is 46, "0" is 48), a proper prefix is smaller
RECURSIVE str_less(_, _)
str_less(a, b) ==
    LET ord(c) == IF c = "." THEN 46
                  ELSE 47 + (CHOOSE k \in DOMAIN DIGITS : DIGITS[k] = c)
    IN
    IF b = <<>> THEN FALSE
    ELSE IF a = <<>> THEN TRUE
    ELSE IF Head(a) # Head(b) THEN ord(Head(a)) < ord(Head(b))
    ELSE str_less(Tail(a), Tail(b))

\* sorted(stats_per_day.keys()): the keys, smallest string first
RECURSIVE sorted(_)
sorted(keys) ==
    IF keys = {} THEN <<>>
    ELSE LET first == CHOOSE k \in keys : \A j \in keys \ {k} : str_less(k, j)
         IN <<first>> \o sorted(keys \ {first})

\* strftime of a number on n digits
RECURSIVE zero_padded(_, _)
zero_padded(number, n) ==
    IF n = 0 THEN <<>>
    ELSE Append(zero_padded(number \div 10, n - 1), DIGITS[(number % 10) + 1])

\* strftime('%d.%m.%Y')
strftime(date) ==
    zero_padded(date.day, 2) \o <<".">> \o zero_padded(date.month, 2) \o <<".">>
       \o zero_padded(date.year, 4)

\* datetime.now() - timedelta(days=i), for i < 28
minus_days(date, i) ==
    IF date.day > i THEN [date EXCEPT !.day = @ - i]
    ELSE LET month == IF date.month = 1 THEN 12 ELSE date.month - 1
             year == IF date.month = 1 THEN date.year - 1 ELSE date.year
             leap == year % 4 = 0 /\ (year % 100 # 0 \/ year % 400 = 0)
             days_in_month == IF month = 2 THEN (IF leap THEN 29 ELSE 28)
                              ELSE IF month \in {4, 6, 9, 11} THEN 30 ELSE 31
         IN [day |-> days_in_month + date.day - i,
             month |-> month, year |-> year]

RECURSIVE sum_field(_, _, _)
sum_field(files, folders, field) ==
    IF folders = {} THEN 0
    ELSE LET f == CHOOSE x \in folders : TRUE
         IN files[f][field] + sum_field(files, folders \ {f}, field)

\* the db.json both functions build from the folders that hold an
\* articles.json: a file that cannot be read is reported and left out
db_json(files, now) ==
    LET readable == {f \in DOMAIN files : files[f].readable}
        today_str == strftime(now)
        week_dates == {strftime(minus_days(now, i)) : i \in 0..(WEEK_DAYS - 1)}
        stats_per_day == [f \in readable |->
                             [date |-> f, articles |-> files[f].articles,
                              ner |-> files[f].ner]]
        order == sorted(readable)
    IN [exists |-> TRUE,
        articles_per_day |-> [i \in DOMAIN order |-> stats_per_day[order[i]]],
        total_ner_today |-> IF today_str \in readable THEN files[today_str].ner ELSE 0,
        total_articles_today |->
            IF today_str \in readable THEN files[today_str].articles ELSE 0,
        total_articles_week |-> sum_field(files, readable \cap week_dates, "articles"),
        total_articles_total |-> sum_field(files, readable, "articles")]

\* run.py, update_db_json, called on the date `now`
UpdateDbJson(now) ==
    /\ ~db.exists
    /\ db' = db_json(date_folders, now)
    /\ UNCHANGED <<providers_file, in_main, top_ner, norm_vars, worker_vars, lookups,
                   comparisons, date_folders, agg_vars>>

\* populate_db.py, populate_db_json, called on the date `now`
PopulateDbJson(now) ==
    /\ ~db.exists
    /\ db' = db_json(date_folders, now)
    /\ UNCHANGED <<providers_file, in_main, top_ner, norm_vars, worker_vars, lookups,
                   comparisons, date_folders, agg_vars>>

\* ------------------------------------------------------------- inputs
Entity(text, label) == [entity |-> text, label |-> label]
Provider(id, country) == [id |-> id, country |-> country]

\* the entities of the aggregation runs
AggEntities ==
    {Entity("Germany", "LOC"), Entity("Europe", "LOC"), Entity("Atlantis", "LOC"),
     Entity("NATO", "ORG"), Entity("Trump", "PER")}

ArticleProviderIds == {"LEMONDE", "spiegel"}

AggArticles == [providerId : ArticleProviderIds, ner : SeqsUpTo(AggEntities, MaxNer)]

AggRegistries ==
    {Readable(<<Provider("LeMonde", "FRA"), Provider("spiegel", "DEU")>>),
     Readable(<<Provider("lemonde", "FRA"), Provider("spiegel", "FRA")>>),
     Readable(<<Provider("lemonde", "USA")>>)}

\* the entities and registry entries of the registry runs
RegistryEntries == [id : {"lemonde", "LeMonde"}, country : {"FRA", "DEU", "XX", ""}]

AllRegistries ==
    {Unreadable} \cup {Readable(r) : r \in SeqsUpTo(RegistryEntries, MaxProviders)}

RegistryArticles ==
    [providerId : ArticleProviderIds,
     ner : {<<>>, <<Entity("Germany", "LOC"), Entity("NATO", "ORG")>>}]

\* the articles of the main runs: a well-formed one, one that is not an
\* object with a string providerId, one with an unhashable entity text
MainArticles ==
    {[providerId |-> "spiegel", ner |-> <<Entity("Europe", "LOC"), Entity("NATO", "ORG")>>],
     [providerId |-> NonString, ner |-> <<>>],
     [providerId |-> "LEMONDE", ner |-> <<Entity("Germany", "LOC"), Entity(Unhashable, "PER")>>]}

MainRegistries ==
    {Readable(<<Provider("LeMonde", "FRA"), Provider("spiegel", "DEU")>>)}

\* ------------------------------------------------------ specifications
\* process_single_date on one date's well-formed file
Init == InitWith(AggRegistries, {"ok"}, {"NATO", "Germany"}, FALSE)

Next ==
    \/ PsdStart
    \/ \E a \in AggArticles : NextArticle(a)
    \/ ProcessArticle
    \/ EndOfArticles
    \/ PsdFinish

Spec == Init /\ [][Next]_vars

\* process_single_date under every provider registry and every kind of file
InitRegistry == InitWith(AllRegistries, FileKinds, {"NATO"}, FALSE)

NextRegistry ==
    \/ PsdStart
    \/ \E a \in RegistryArticles : NextArticle(a)
    \/ ProcessArticle
    \/ EndOfArticles
    \/ PsdFinish

SpecRegistry == InitRegistry /\ [][NextRegistry]_vars

\* main over its list of dates
InitMain == InitWith(MainRegistries, {"absent"}, {"NATO"}, TRUE)

NextMain ==
    \/ MainLoop
    \/ PsdStart
    \/ \E a \in MainArticles : NextArticle(a)
    \/ ProcessArticle
    \/ EndOfArticles
    \/ PsdFinish
    \/ MainOpenOutput
    \/ MainWrite
    \/ Crash

SpecMain == InitMain /\ [][NextMain]_vars

\* the entity occurrences of the normalization runs
NormTexts == {"e1", "e2", "e3"}

NormOccurrences ==
    {Entity(t, "PER") : t \in NormTexts \cup {" e1"}} \cup {Entity("e1", "ORG")}

\* the symmetric and reflexive relations on the texts
SimilarityRelations ==
    {r \in SUBSET (NormTexts \X NormTexts) :
        /\ \A t \in NormTexts : <<t, t>> \in r
        /\ \A p \in r : <<p[2], p[1]>> \in r}

\* global_entity_normalization run MaxRuns times on one batch
InitNorm ==
    /\ AggInit({Unreadable}, {"absent"}, {"NATO"}, FALSE)
    /\ processed_articles \in SeqsUpTo(NormOccurrences, MaxBatch)
    /\ similar \in SimilarityRelations
    /\ replacement_mappings = EmptyDict
    /\ replacement_count = 0
    /\ norm_runs = 0
    /\ WorkersIdle
    /\ RunIdle

NextNorm == GlobalEntityNormalization

SpecNorm == InitNorm /\ [][NextNorm]_vars

\* the registry and the articles of the runs that compare provider counts:
\* one French and two German providers
ShareRegistries ==
    {Readable(<<Provider("lemonde", "FRA"), Provider("spiegel", "DEU"),
                Provider("zeit", "DEU")>>)}

ShareArticles ==
    [providerId : {"LEMONDE", "spiegel", "zeit"},
     ner : {<<>>,
            <<Entity("Washington", "LOC"), Entity("NATO", "ORG")>>,
            <<Entity("Europe", "LOC"), Entity("NATO", "ORG"), Entity("NATO", "ORG")>>}]

\* process_single_date on a date of up to MaxShareArticles articles
InitShares == InitWith(ShareRegistries, {"ok"}, {"NATO"}, FALSE)

NextShares ==
    \/ PsdStart
    \/ \E a \in ShareArticles : NextArticleUpTo(a, MaxShareArticles)
    \/ ProcessArticle
    \/ EndOfArticles
    \/ PsdFinish

SpecShares == InitShares /\ [][NextShares]_vars

\* the worker pool: one worker per date
Workers == {"w1", "w2"}

\* the articles of the dates the workers process
WorkerArticles ==
    {[providerId |-> "LEMONDE", ner |-> <<Entity("Germany", "LOC"), Entity("NATO", "ORG")>>],
     [providerId |-> "spiegel", ner |-> <<Entity("France", "LOC"), Entity("Europe", "LOC")>>],
     [providerId |-> "unknown", ner |-> <<Entity("Deutschland", "LOC")>>]}

\* process_single_date called for several dates at once
InitWorkers ==
    /\ AggInit(MainRegistries \cup {Unreadable}, {"ok"}, {"NATO"}, FALSE)
    /\ NormIdle
    /\ RunIdle
    /\ gazetteer = StaticTables
    /\ lookups = <<>>
    /\ worker_input \in [Workers -> SeqsUpTo(WorkerArticles, MaxArticles)]
    /\ workers = [w \in Workers |->
                     [pc |-> "psd_start", provider_country_map |-> EmptyDict,
                      locals |-> FreshLocals, date_data |-> EmptyResult]]

NextWorkers ==
    \E w \in Workers :
       \/ WorkerStart(w)
       \/ WorkerScan(w)
       \/ WorkerFinish(w)

SpecWorkers == InitWorkers /\ [][NextWorkers]_vars

\* the location names looked up
LocationNames ==
    {"", NonString, "Germany", " Germany ", "GERMANY", "France", "Europe",
     "Washington", "Deutschland", " Deutschland", "Atlantis"}

\* the resolver called on a series of names
InitResolver == InitWith({Unreadable}, {"absent"}, {"NATO"}, FALSE)

NextResolver == \E location_name \in LocationNames : Resolve(location_name)

SpecResolver == InitResolver /\ [][NextResolver]_vars

\* the articles of the runs that fill a top-entity table beyond TOP_N
\* entities: eleven entities about Germany, two of them again about Europe
TopArticles ==
    [providerId : {"LEMONDE", "spiegel"},
     ner : {<<>>,
            <<Entity("Germany", "LOC"),
              Entity("NATO", "ORG"), Entity("EU", "ORG"), Entity("UN", "ORG"),
              Entity("WHO", "ORG"), Entity("IMF", "ORG"), Entity("Trump", "PER"),
              Entity("Macron", "PER"), Entity("Merkel", "PER"), Entity("Biden", "PER"),
              Entity("Putin", "PER"), Entity("Scholz", "PER")>>,
            <<Entity("Europe", "LOC"), Entity("Scholz", "PER"), Entity("Scholz", "PER"),
              Entity("Putin", "PER")>>}]

\* process_single_date on a date of up to MaxTopArticles such articles
InitTop == InitWith(ShareRegistries, {"ok"}, {"NATO"}, FALSE)

NextTop ==
    \/ PsdStart
    \/ \E a \in TopArticles : NextArticleUpTo(a, MaxTopArticles)
    \/ ProcessArticle
    \/ EndOfArticles
    \/ PsdFinish

SpecTop == InitTop /\ [][NextTop]_vars

\* the entity strings of the runs of are_entities_similar: EU, E.U.,
\* European Union, USA, U.S.A., U S A, United States of America, UN, U N,
\* Trump, Donald Trump, Donald J. Trump
EntityStrings ==
    {<<"E", "U">>,
     <<"E", ".", "U", ".">>,
     <<"E", "u", "r", "o", "p", "e", "a", "n", " ", "U", "n", "i", "o", "n">>,
     <<"U", "S", "A">>,
     <<"U", ".", "S", ".", "A", ".">>,
     <<"U", " ", "S", " ", "A">>,
     <<"U", "n", "i", "t", "e", "d", " ", "S", "t", "a", "t", "e", "s", " ", "o", "f", " ",
       "A", "m", "e", "r", "i", "c", "a">>,
     <<"U", "N">>,
     <<"U", " ", "N">>,
     <<"T", "r", "u", "m", "p">>,
     <<"D", "o", "n", "a", "l", "d", " ", "T", "r", "u", "m", "p">>,
     <<"D", "o", "n", "a", "l", "d", " ", "J", ".", " ", "T", "r", "u", "m", "p">>}

\* are_entities_similar called on pairs of entity strings
InitCompare ==
    /\ AggInit({Unreadable}, {"absent"}, {"NATO"}, FALSE)
    /\ NormIdle
    /\ WorkersIdle
    /\ RunIdle

NextCompare == \E entity1, entity2 \in EntityStrings : Compare(entity1, entity2)

SpecCompare == InitCompare /\ [][NextCompare]_vars

\* the date folders under public/data and the dates the functions run on
Dates == [day : {1, 15}, month : {1, 2}, year : {2024, 2025}]

ArticlesFiles ==
    {[readable |-> TRUE, articles |-> 1, ner |-> 2],
     [readable |-> TRUE, articles |-> 2, ner |-> 0],
     [readable |-> FALSE, articles |-> 0, ner |-> 0]}

\* update_db_json or populate_db_json run once on a data directory
InitDb ==
    /\ AggInit({Unreadable}, {"absent"}, {"NATO"}, FALSE)
    /\ NormIdle
    /\ WorkersIdle
    /\ comparisons = <<>>
    /\ \E S \in SUBSET {strftime(d) : d \in Dates} :
          /\ Cardinality(S) <= MaxFolders
          /\ date_folders \in [S -> ArticlesFiles]
    /\ db = NoDb

NextDb ==
    \E now \in Dates :
       \/ UpdateDbJson(now)
       \/ PopulateDbJson(now)

SpecDb == InitDb /\ [][NextDb]_vars

\* ------------------------------------------------ claims: helpers
Count(d, k) == DictGet(d, k, 0)
Cell(matrix, row, col) == IF row \in DOMAIN matrix THEN DictGet(matrix[row], col, 0) ELSE 0

\* the number of LOC spans of a ner list that the gazetteer resolves to m
SpansResolvingTo(ner, m) ==
    Cardinality({i \in DOMAIN ner :
                    /\ ner[i].label = "LOC"
                    /\ ner[i].entity # ""
                    /\ m \in SeqToSet(get_country_code_for_location(ner[i].entity).codes)})

MentionedBy(a) == {m \in all_codes : SpansResolvingTo(a.ner, m) >= 1}

\* the scan is about to run the loop body on an article of a known provider
ScansResolvedArticle ==
    /\ pc = "article"
    /\ article.providerId # NonString
    /\ source_of(article, provider_country_map) # None

\* C1: no article adds to the Import count of its own source country or to
\* a diagonal cell of Coverage or Covering; its source's Export count grows
\* by the number of other countries it mentions; and an article that
\* mentions no country but its own source leaves Import, Export, Coverage
\* and Covering unchanged.
C1_NoSelfMention ==
    [][ScansResolvedArticle =>
          LET s == source_of(article, provider_country_map)
              M == MentionedBy(article)
          IN /\ Count(import_counts', s) = Count(import_counts, s)
             /\ \A c \in all_codes :
                   /\ Cell(country_coverage_matrix', c, c) = 0
                   /\ Cell(country_covering_matrix', c, c) = 0
             /\ Count(export_counts', s) = Count(export_counts, s) + Cardinality(M \ {s})
             /\ (M \subseteq {s} =>
                    UNCHANGED <<import_counts, export_counts,
                                country_coverage_matrix, country_covering_matrix>>)]_vars

\* an article of a German provider that names Germany has been scanned,
\* and nothing was counted
C1_Witness ==
    /\ pc = "scan"
    /\ processed_article_count = 1
    /\ top_ner = "Germany"
    /\ Count(ner_counts, "DEU") >= 1
    /\ Count(articles_per_country, "DEU") = 1
    /\ import_counts = EmptyDict
    /\ country_coverage_matrix = EmptyDict

\* C5: one article of source s adds exactly 1 to Import[m], Coverage[m][s]
\* and Covering[s][m] for each distinct country m # s it mentions, however
\* many of its LOC spans resolve to m, adds nothing for the other
\* countries, and adds to Export[s] one per such m.
C5_OncePerDistinctCountry ==
    [][ScansResolvedArticle =>
          LET s == source_of(article, provider_country_map)
          IN /\ \A m \in all_codes \ {s} :
                   LET k == IF SpansResolvingTo(article.ner, m) >= 1 THEN 1 ELSE 0
                   IN /\ Count(import_counts', m) = Count(import_counts, m) + k
                      /\ Cell(country_coverage_matrix', m, s) =
                            Cell(country_coverage_matrix, m, s) + k
                      /\ Cell(country_covering_matrix', s, m) =
                            Cell(country_covering_matrix, s, m) + k
             /\ Count(export_counts', s) =
                   Count(export_counts, s) + Cardinality(MentionedBy(article) \ {s})]_vars

\* one article with two spans "Germany" has been scanned: Import[DEU] is 1
C5_Witness ==
    /\ pc = "scan"
    /\ processed_article_count = 1
    /\ top_ner = "Germany"
    /\ Count(ner_counts, "DEU") = 2
    /\ Count(import_counts, "DEU") = 1
    /\ Count(export_counts, "FRA") = 1

C9_NoZeroDivision ==
    /\ exc # "ZeroDivisionError"
    /\ pc = "returned" =>
          /\ ~zero_division_in(date_data)
          /\ total_imports = 0 =>
                \A c \in all_codes : date_data.importData[c] = RZero
          /\ (\A c \in all_codes :
                 Count(export_counts, c) = 0 \/ Count(providers_per_country, c) = 0) =>
                \A c \in all_codes : date_data.exportData[c] = RZero
          /\ (\A c \in all_codes :
                 Count(ner_counts, c) < MIN_MENTIONS \/ Count(providers_per_country, c) = 0) =>
                \A c \in all_codes : date_data.nerData[c] = RZero
          /\ \A c \in all_codes :
                /\ c \notin DOMAIN country_coverage_matrix =>
                      /\ date_data.foreignPressData.countryCoverage[c].coveredBy = EmptyDict
                      /\ date_data.foreignPressData.countryCoverage[c].totalCoverage = RZero
                /\ c \notin DOMAIN country_covering_matrix =>
                      /\ date_data.foreignPressData.countryCovering[c].covering = EmptyDict
                      /\ date_data.foreignPressData.countryCovering[c].totalCovering = RZero
          /\ \A c \in DOMAIN country_related_entities :
                DOMAIN country_related_entities[c] = {} =>
                   c \notin DOMAIN date_data.TopEntitiesByCountry

\* a result of a date with articles of known providers and no import event
C9_Witness ==
    /\ pc = "returned"
    /\ total_imports = 0
    /\ processed_article_count >= 1
    /\ DOMAIN providers_per_country # {}

\* the keys of a dict of dicts, inner keys included
Keys2(matrix) == DOMAIN matrix \cup UNION {DOMAIN matrix[k] : k \in DOMAIN matrix}

\* C6: every key of the four matrices and of every section of a returned
\* result (importData, exportData, nerData, TopEntitiesByCountry, the outer
\* and the coveredBy / covering keys of the foreign-press data) is a code
\* of the universe.
C6_KeysInUniverse ==
    pc = "returned" =>
       /\ DOMAIN import_counts \subseteq all_codes
       /\ DOMAIN export_counts \subseteq all_codes
       /\ Keys2(country_coverage_matrix) \subseteq all_codes
       /\ Keys2(country_covering_matrix) \subseteq all_codes
       /\ DOMAIN date_data.importData \subseteq all_codes
       /\ DOMAIN date_data.exportData \subseteq all_codes
       /\ DOMAIN date_data.nerData \subseteq all_codes
       /\ DOMAIN date_data.TopEntitiesByCountry \subseteq all_codes
       /\ \A c \in DOMAIN date_data.foreignPressData.countryCoverage :
             /\ c \in all_codes
             /\ DOMAIN date_data.foreignPressData.countryCoverage[c].coveredBy
                   \subseteq all_codes
       /\ \A c \in DOMAIN date_data.foreignPressData.countryCovering :
             /\ c \in all_codes
             /\ DOMAIN date_data.foreignPressData.countryCovering[c].covering
                   \subseteq all_codes

\* a registry entry load_providers_map keeps
ValidEntry(p) == p.id # "" /\ p.country # "" /\ p.country # NonString

\* the registry entries whose id equals the provider id up to letter case
EntriesFor(file, id) ==
    {i \in DOMAIN file.data :
        ValidEntry(file.data[i]) /\ str_lower(file.data[i].id) = str_lower(id)}

\* the country of the last such entry, None when there is none
RegistryCountry(file, id) ==
    IF ~file.readable \/ EntriesFor(file, id) = {} THEN None
    ELSE file.data[CHOOSE i \in EntriesFor(file, id) :
                      \A j \in EntriesFor(file, id) : j <= i].country

\* the scan of an article of an unknown provider counts it as skipped and
\* changes nothing else, its provider count included
SkippedChangesNothing ==
    /\ skipped_articles_no_country' = skipped_articles_no_country + 1
    /\ UNCHANGED <<import_counts, export_counts, total_imports, total_exports,
                   country_coverage_matrix, country_covering_matrix,
                   country_related_entities, ner_counts, articles_per_country>>
    /\ count_providers(articles.items, provider_country_map) =
          count_providers(SubSeq(articles.items, 1, Len(articles.items) - 1),
                          provider_country_map)

C3_MalformedFileYieldsEmpty ==
    (/\ articles_file \in {"absent", "invalid_json", "not_object", "data_null"}
     /\ pc \in {"returned", "raised"})
    => (pc = "returned" /\ date_data = EmptyResult)

\* C4: when main ends, every date of its list was written or counted as
\* skipped.
C4_EveryDateAccounted ==
    (in_main /\ pc \in {"main_done", "raised"})
    => processed_count + skipped_count = Len(dates_to_process)

\* C10: when the process is killed, every output file main has opened
\* holds none of the new snapshot or all of it.
C10_AtomicWrite ==
    pc = "killed" =>
       \A d \in DOMAIN out_files :
          out_files[d].content = "new" => out_files[d].chunks \in {0, NumChunks}

\* C2: a second run of global_entity_normalization on the output of a first
\* run rewrites no entity occurrence.
C2_SecondRunRewritesNothing == norm_runs >= 2 => replacement_count = 0

\* the locals of a call that scanned the first n articles of a list alone
RECURSIVE ScannedAlone(_, _, _, _)
ScannedAlone(article_list, n, provider_map, top) ==
    IF n = 0 THEN FreshLocals
    ELSE scan_article(ScannedAlone(article_list, n - 1, provider_map, top),
                      article_list[n], provider_map, top)

\* the result of process_single_date called for one date alone
ResultAlone(article_list, file, top) ==
    LET provider_map == load_providers_map(file)
        l == ScannedAlone(article_list, Len(article_list), provider_map, top)
        ids == [i \in DOMAIN article_list |-> article_list[i].providerId]
    IN IF DOMAIN provider_map = {} THEN EmptyResult
       ELSE compute_result(l.import_counts, l.total_imports, l.export_counts,
                           l.ner_counts, l.country_related_entities,
                           l.country_coverage_matrix, l.country_covering_matrix,
                           count_providers(ids, provider_map), top)

DistinctProviders(c) ==
    Cardinality({str_lower(articles.items[i]) : i \in
                    {j \in DOMAIN articles.items :
                        RegistryCountry(providers_file, articles.items[j]) = c}})

\* Export[c] over the distinct providers of c, 0 when c has none
ExportRatio(c) ==
    IF DistinctProviders(c) > 0
    THEN Quot(Count(export_counts, c), DistinctProviders(c))
    ELSE RZero

\* C12: in a returned result the provider count of every country is the
\* number of its distinct providers among the date's articles, and
\* exportData[c] is Export[c] over that number, divided by the sum of these
\* ratios over the universe: it sums to 1 when a ratio is positive and is
\* all zero otherwise.
C12_ExportDistribution ==
    pc = "returned" =>
       LET ratios == [c \in all_codes |-> ExportRatio(c)]
           total == RSumValues(ratios)
       IN /\ \A c \in all_codes : Count(providers_per_country, c) = DistinctProviders(c)
          /\ DOMAIN date_data.exportData = all_codes
          /\ RPos(total) =>
                /\ \A c \in all_codes : date_data.exportData[c] = RDiv(ratios[c], total)
                /\ RSumValues(date_data.exportData) = ROne
          /\ ~RPos(total) => \A c \in all_codes : date_data.exportData[c] = RZero

\* a result in which France and Germany export the same number of
\* mentions, Germany through two providers: its share is half of France's
C12_Witness ==
    /\ pc = "returned"
    /\ Count(export_counts, "FRA") = Count(export_counts, "DEU")
    /\ DistinctProviders("FRA") = 1
    /\ DistinctProviders("DEU") = 2
    /\ date_data.exportData["FRA"] = Quot(2, 3)
    /\ date_data.exportData["DEU"] = Quot(1, 3)

\* the countries B with Coverage[A][B] > 0
CoveringCountries(A) == {B \in all_codes : Cell(country_coverage_matrix, A, B) > 0}

\* Coverage[A][B] over the provider count of B
CoverageRatio(A, B) == Quot(Cell(country_coverage_matrix, A, B), DistinctProviders(B))

\* the sum of A's ratios before their renormalization
PreCoverage(A) == RSumValues([B \in CoveringCountries(A) |-> CoverageRatio(A, B)])

\* C13: in a returned result, for every country A of the universe,
\* coveredBy has exactly the countries B with Coverage[A][B] > 0 as keys,
\* coveredBy[B] is Coverage[A][B] / providerCount[B] divided by the sum of
\* these ratios over B, and totalCoverage is the sum of A's ratios divided
\* by the sum of that quantity over all A (0 for every A without coverage).
C13_ForeignPressCoverage ==
    pc = "returned" =>
       LET all_pre == RSumValues([A \in all_codes |-> PreCoverage(A)])
       IN \A A \in all_codes :
             LET row == date_data.foreignPressData.countryCoverage[A]
             IN /\ DOMAIN row.coveredBy = CoveringCountries(A)
                /\ \A B \in CoveringCountries(A) :
                      row.coveredBy[B] = RDiv(CoverageRatio(A, B), PreCoverage(A))
                /\ row.totalCoverage =
                      IF RPos(all_pre) THEN RDiv(PreCoverage(A), all_pre) ELSE RZero

\* the United States is covered once from France and twice from Germany,
\* whose two providers both wrote: each covers one half
C13_Witness ==
    /\ pc = "returned"
    /\ Cell(country_coverage_matrix, "USA", "FRA") = 1
    /\ Cell(country_coverage_matrix, "USA", "DEU") = 2
    /\ DistinctProviders("DEU") = 2
    /\ date_data.foreignPressData.countryCoverage["USA"].coveredBy["DEU"] = Quot(1, 2)
    /\ date_data.foreignPressData.countryCoverage["USA"].totalCoverage = ROne

\* the list has exactly the countries with a positive scalar, each once,
\* each with its scalar
RanksPositive(list, scalar) ==
    /\ {list[i].countryCode : i \in DOMAIN list} = {c \in all_codes : RPos(scalar[c])}
    /\ Len(list) = Cardinality({c \in all_codes : RPos(scalar[c])})
    /\ \A i \in DOMAIN list : list[i].total = scalar[list[i].countryCode]

StrictlyDescending(list) ==
    \A i \in 1..(Len(list) - 1) : RGreater(list[i].total, list[i + 1].total)

Descending(list) ==
    \A i \in 1..(Len(list) - 1) : ~RGreater(list[i + 1].total, list[i].total)

TotalCoverageOf(result) ==
    [c \in all_codes |-> result.foreignPressData.countryCoverage[c].totalCoverage]

TotalCoveringOf(result) ==
    [c \in all_codes |-> result.foreignPressData.countryCovering[c].totalCovering]

\* C14 (as stated): the two ranking lists of a returned result hold exactly
\* the countries with a positive scalar, and every entry's scalar is
\* strictly greater than the next entry's.
C14_RankingsStrictlyDescending ==
    pc = "returned" =>
       /\ RanksPositive(date_data.foreignPressData.featuredRankings, TotalCoverageOf(date_data))
       /\ RanksPositive(date_data.foreignPressData.coveringRankings, TotalCoveringOf(date_data))
       /\ StrictlyDescending(date_data.foreignPressData.featuredRankings)
       /\ StrictlyDescending(date_data.foreignPressData.coveringRankings)

\* C14 (amended): the two ranking lists of a returned result hold exactly
\* the countries with a positive scalar, and no entry's scalar is smaller
\* than the next entry's.
C14_RankingsDescending ==
    pc = "returned" =>
       /\ RanksPositive(date_data.foreignPressData.featuredRankings, TotalCoverageOf(date_data))
       /\ RanksPositive(date_data.foreignPressData.coveringRankings, TotalCoveringOf(date_data))
       /\ Descending(date_data.foreignPressData.featuredRankings)
       /\ Descending(date_data.foreignPressData.coveringRankings)

\* a returned result whose featured ranking lists two countries of
\* different scalars and leaves out the third, whose scalar is 0, and
\* whose covering ranking lists two countries of equal scalars
C14_Witness ==
    /\ pc = "returned"
    /\ Len(date_data.foreignPressData.featuredRankings) = 2
    /\ StrictlyDescending(date_data.foreignPressData.featuredRankings)
    /\ Len(date_data.foreignPressData.coveringRankings) = 2
    /\ ~StrictlyDescending(date_data.foreignPressData.coveringRankings)

\* the case-folded, trimmed text of a location name
Folded(location_name) == str_strip(str_lower(location_name))

NoMatch == [kind |-> "none", codes |-> <<>>]
SingleCountry(code) == [kind |-> "str", codes |-> <<code>>]

\* C15: every call of get_country_code_for_location returns no match for an
\* empty or non-string name; otherwise, on the folded and trimmed name: a
\* region name yields the region's ordered member list, whatever else the
\* name is; a country name that is no region name yields the country, also
\* when it is a city name; a city name that is neither yields the city's
\* country; any other name yields what the fuzzy country search finds.
C15_GazetteerCascade ==
    \A i \in DOMAIN lookups :
       LET name == lookups[i].location_name
           found == lookups[i].country_code
           key == Folded(name)
           regions == DOMAIN REGION_COUNTRIES
           countries == DOMAIN COUNTRY_NAME_TO_ISO3
           cities == DOMAIN CITY_TO_COUNTRY
       IN IF name \in {"", None, NonString} THEN found = NoMatch
          ELSE /\ key \in regions =>
                    found = [kind |-> "tuple", codes |-> REGION_COUNTRIES[key]]
               /\ key \in countries \ regions =>
                    found = SingleCountry(COUNTRY_NAME_TO_ISO3[key])
               /\ key \in cities \ (regions \cup countries) =>
                    found = SingleCountry(CITY_TO_COUNTRY[key])
               /\ key \notin regions \cup countries \cup cities =>
                    found = IF search_fuzzy(key) = None THEN NoMatch
                            ELSE SingleCountry(search_fuzzy(key))

\* "Europe", a region name and a city name, was resolved to the region's
\* members, then " Germany ", a country name and a city name once trimmed
\* and folded, to the country
C15_Witness ==
    /\ Len(lookups) = 2
    /\ lookups[1].location_name = "Europe"
    /\ lookups[1].country_code.codes = <<"FRA", "DEU">>
    /\ "europe" \in DOMAIN CITY_TO_COUNTRY
    /\ lookups[2].location_name = " Germany "
    /\ lookups[2].country_code.codes = <<"DEU">>
    /\ "germany" \in DOMAIN CITY_TO_COUNTRY

\* the texts of the LOC entities of an article
LocNames(a) ==
    {a.ner[i].entity : i \in {j \in DOMAIN a.ner :
                                 a.ner[j].label = "LOC" /\ a.ner[j].entity # ""}}

IsRegionName(n) == Folded(n) \in DOMAIN REGION_COUNTRIES

\* no table has the name and the fuzzy search finds nothing
IsUnresolvable(n) ==
    /\ Folded(n) \notin DOMAIN REGION_COUNTRIES \cup DOMAIN COUNTRY_NAME_TO_ISO3
                           \cup DOMAIN CITY_TO_COUNTRY
    /\ search_fuzzy(n) = None

\* the members of the regions among the names
RegionMembers(names) ==
    UNION {SeqToSet(REGION_COUNTRIES[Folded(n)]) : n \in {x \in names : IsRegionName(x)}}

\* C16: when every LOC entity of an article of source s names a region or
\* is unresolvable, the scan of the article adds 1 to Import[m] for each
\* member m # s of the regions named and to no other Import count, and adds
\* the number of these members to Export[s]; with unresolvable LOC texts
\* only, nothing is added.
C16_RegionExpansion ==
    [][(/\ ScansResolvedArticle
        /\ \A n \in LocNames(article) : IsRegionName(n) \/ IsUnresolvable(n)) =>
          LET s == source_of(article, provider_country_map)
              members == RegionMembers(LocNames(article)) \ {s}
          IN /\ \A m \in all_codes :
                   Count(import_counts', m) =
                      Count(import_counts, m) + (IF m \in members THEN 1 ELSE 0)
             /\ Count(export_counts', s) = Count(export_counts, s) + Cardinality(members)
             /\ total_imports' = total_imports + Cardinality(members)]_vars

\* the first article of the date, of an American provider, named Europe:
\* France and Germany are imported once each, the United States export
\* twice
C16_Witness ==
    /\ pc = "scan"
    /\ processed_article_count = 1
    /\ Count(articles_per_country, "USA") = 1
    /\ import_counts = ("FRA" :> 1) @@ ("DEU" :> 1)
    /\ export_counts = ("USA" :> 2)

\* filtered holds exactly the entries of section whose value is > 0
KeepsPositive(filtered, section) ==
    /\ DOMAIN filtered = {k \in DOMAIN section : RPos(section[k])}
    /\ \A k \in DOMAIN filtered : filtered[k] = section[k]

\* C17: the snapshot main is writing keeps in importData, exportData and
\* nerData exactly the entries of process_single_date's result whose value
\* is strictly positive, and its TopEntitiesByCountry and foreignPressData
\* are those of the result.
C17_SnapshotKeepsPositive ==
    (in_main /\ pc = "writing") =>
       /\ KeepsPositive(filtered_data.importData, date_data.importData)
       /\ KeepsPositive(filtered_data.exportData, date_data.exportData)
       /\ KeepsPositive(filtered_data.nerData, date_data.nerData)
       /\ filtered_data.TopEntitiesByCountry = date_data.TopEntitiesByCountry
       /\ filtered_data.foreignPressData = date_data.foreignPressData

\* main is writing a snapshot whose importData has one entry of the
\* result's three, and whose foreign-press data keeps a country of total
\* coverage 0 with an empty coveredBy
C17_Witness ==
    /\ in_main
    /\ pc = "writing"
    /\ DOMAIN date_data.importData = all_codes
    /\ Cardinality(DOMAIN filtered_data.importData) = 1
    /\ \E c \in all_codes :
          /\ filtered_data.foreignPressData.countryCoverage[c].totalCoverage = RZero
          /\ filtered_data.foreignPressData.countryCoverage[c].coveredBy = EmptyDict

\* the number of PER/ORG/MISC occurrences of the text e in a ner list
OtherOccurrences(ner, e) ==
    Cardinality({i \in DOMAIN ner :
                    /\ ner[i].entity = e
                    /\ ner[i].label \in {"PER", "ORG", "MISC"}})

EntityTexts == {x.entity : x \in AggEntities}

\* C18 as stated: one article adds each of its non-LOC entity occurrences
\* to the top-entity table of every country it mentions, its own source
\* country included.
C18_EveryMentionedCountryAccumulates ==
    [][ScansResolvedArticle =>
          \A c \in MentionedBy(article) : \A e \in EntityTexts :
             Cell(country_related_entities', c, e) =
                Cell(country_related_entities, c, e) + OtherOccurrences(article.ner, e)]_vars

\* C18 amended: one article adds each of its non-LOC entity occurrences to
\* the top-entity table of every country it mentions other than its own
\* source country, and leaves every other country's table, its source's
\* included, as it was.
C18_ForeignMentionedCountryAccumulates ==
    [][ScansResolvedArticle =>
          LET s == source_of(article, provider_country_map)
              M == MentionedBy(article)
          IN \A c \in all_codes : \A e \in EntityTexts :
                Cell(country_related_entities', c, e) =
                   Cell(country_related_entities, c, e)
                   + (IF c \in M \ {s} THEN OtherOccurrences(article.ner, e) ELSE 0)]_vars

\* one article of a German provider that names Europe (Germany and France
\* among its members) and NATO has been scanned: NATO is in the table of
\* France and not in the table of Germany
C18_Witness ==
    /\ pc = "scan"
    /\ processed_article_count = 1
    /\ Count(articles_per_country, "DEU") = 1
    /\ Count(import_counts, "FRA") = 1
    /\ Cell(country_related_entities, "FRA", "NATO") = 1
    /\ Cell(country_related_entities, "DEU", "NATO") = 0

\* C19: topNer is the non-LOC entity most frequent over the date's
\* articles and nerData comes from its per-country counts. Hence, in a
\* returned result of a date none of whose articles was skipped, the
\* mentions counted for topNer (ner_counts, the counts nerData is computed
\* from) are at least as many as the count of any entity in any country's
\* top-entity table, a count that entity's frequency over the date bounds.
C19_TopNerIsMostFrequent ==
    (pc = "returned" /\ skipped_articles_no_country = 0) =>
       \A c \in DOMAIN country_related_entities :
          \A e \in DOMAIN country_related_entities[c] :
             SumValues(ner_counts) >= country_related_entities[c][e]

\* the countries with a provider among the date's articles and at least 2
\* counted mentions of topNer
PassTheFloor == {c \in all_codes : DistinctProviders(c) > 0 /\ Count(ner_counts, c) >= 2}

\* the counted mentions of topNer over the distinct providers of c
MentionRatio(c) == Quot(Count(ner_counts, c), DistinctProviders(c))

\* C20: in a returned result every country with fewer than 2 counted
\* mentions of topNer, or with no provider among the date's articles, has
\* nerData exactly 0; every other country's nerData is its mention count
\* over its provider count, divided by the sum of these ratios over the
\* countries that pass the floor only.
C20_NoiseFloorBeforeRenormalization ==
    pc = "returned" =>
       LET total == RSumValues([c \in PassTheFloor |-> MentionRatio(c)])
       IN /\ DOMAIN date_data.nerData = all_codes
          /\ \A c \in all_codes \ PassTheFloor : date_data.nerData[c] = RZero
          /\ \A c \in PassTheFloor : date_data.nerData[c] = RDiv(MentionRatio(c), total)

\* a result of a date on which French sources count one mention of topNer
\* and German sources, through two providers, three: France is zeroed and
\* Germany holds the whole distribution
C20_Witness ==
    /\ pc = "returned"
    /\ Count(ner_counts, "FRA") = 1
    /\ Count(ner_counts, "DEU") = 3
    /\ DistinctProviders("FRA") = 1
    /\ DistinctProviders("DEU") = 2
    /\ date_data.nerData["FRA"] = RZero
    /\ date_data.nerData["DEU"] = ROne

\* the number of occurrences in a batch counted for the text under the label
CountedAs(batch, label, text) ==
    Cardinality({i \in DOMAIN batch :
                    batch[i].label = label /\ str_strip(batch[i].entity) = text})

\* the position of the first occurrence counted for the text under the label
FirstCounted(batch, label, text) ==
    CHOOSE i \in DOMAIN batch :
       /\ batch[i].label = label /\ str_strip(batch[i].entity) = text
       /\ \A j \in 1..(i - 1) :
             ~(batch[j].label = label /\ str_strip(batch[j].entity) = text)

NormLabels == {x.label : x \in NormOccurrences}

\* the variants a run maps to the canonical text c under the label
VariantsOf(mappings, label, c) ==
    {t \in NormTexts : <<t, label>> \in DOMAIN mappings /\ mappings[<<t, label>>] = c}

\* C21: in every group a run forms, no member is counted more often than
\* the canonical form, and a member counted as often as the canonical form
\* occurs first in the batch after it.
C21_CanonicalIsMostFrequentFirst ==
    [][norm_runs' = norm_runs + 1 =>
          \A label \in NormLabels : \A c \in NormTexts :
             \A v \in VariantsOf(replacement_mappings', label, c) :
                /\ CountedAs(processed_articles, label, c) >= 1
                /\ CountedAs(processed_articles, label, v)
                      <= CountedAs(processed_articles, label, c)
                /\ (CountedAs(processed_articles, label, v)
                       = CountedAs(processed_articles, label, c)
                    => FirstCounted(processed_articles, label, c)
                          < FirstCounted(processed_articles, label, v))]_vars

\* after one run of the batch e1, e2, each counted once and similar: the
\* tie went to e1, the first in the batch, and the one e2 was rewritten
C21_Witness ==
    /\ norm_runs = 1
    /\ replacement_count = 1
    /\ replacement_mappings = (<<"e2", "PER">> :> "e1")
    /\ processed_articles = <<Entity("e1", "PER"), Entity("e1", "PER")>>

\* the canonical texts of a label in the mappings of a run
Canonicals(mappings, label) ==
    {mappings[k] : k \in {x \in DOMAIN mappings : x[2] = label}}

\* the group of the canonical text c: c and its variants
GroupOf(mappings, label, c) == {c} \cup VariantsOf(mappings, label, c)

\* the member of a group that occurs first in the batch
SeedOf(batch, label, group) ==
    CHOOSE s \in group :
       \A m \in group : FirstCounted(batch, label, s) <= FirstCounted(batch, label, m)

\* C22: in every group a run forms, every member is similar to the seed,
\* the member first in list order; an entity later in the list that is
\* similar to the seed and is not in the group is in a group with an
\* earlier seed; and no entity is in two groups.
C22_SeedOnlyGrouping ==
    [][norm_runs' = norm_runs + 1 =>
          \A label \in NormLabels :
             LET batch == processed_articles
                 mappings == replacement_mappings'
                 Group(c) == GroupOf(mappings, label, c)
                 Seed(c) == SeedOf(batch, label, Group(c))
             IN \A c \in Canonicals(mappings, label) :
                   /\ \A m \in Group(c) :
                         /\ CountedAs(batch, label, m) >= 1
                         /\ <<Seed(c), m>> \in similar
                   /\ \A t \in NormTexts \ Group(c) :
                         (/\ CountedAs(batch, label, t) >= 1
                          /\ <<Seed(c), t>> \in similar
                          /\ FirstCounted(batch, label, Seed(c))
                                < FirstCounted(batch, label, t))
                         => \E d \in Canonicals(mappings, label) :
                               /\ t \in Group(d)
                               /\ FirstCounted(batch, label, Seed(d))
                                     < FirstCounted(batch, label, Seed(c))
                   /\ \A d \in Canonicals(mappings, label) \ {c} :
                         Group(c) \cap Group(d) = {}]_vars

\* after one run with e1 similar to e2, e2 to e3 and e1 not to e3: the
\* group seeded at e1 took e2 and not e3, whose occurrence is as it was
C22_Witness ==
    /\ norm_runs = 1
    /\ <<"e1", "e2">> \in similar
    /\ <<"e2", "e3">> \in similar
    /\ <<"e1", "e3">> \notin similar
    /\ replacement_mappings = (<<"e2", "PER">> :> "e1")
    /\ \E i \in DOMAIN processed_articles : processed_articles[i] = Entity("e3", "PER")

\* C23: a run rewrites to the canonical text every stored occurrence whose
\* counted text, the stored text without its leading and trailing
\* whitespace, is a variant of its label, and leaves every other
\* occurrence and every label as they were.
C23_EveryVariantOccurrenceRewritten ==
    [][norm_runs' = norm_runs + 1 =>
          /\ Len(processed_articles') = Len(processed_articles)
          /\ \A i \in DOMAIN processed_articles :
                LET stored == processed_articles[i]
                    key == <<str_strip(stored.entity), stored.label>>
                IN /\ processed_articles'[i].label = stored.label
                   /\ processed_articles'[i].entity =
                         IF key \in DOMAIN replacement_mappings'
                         THEN replacement_mappings'[key]
                         ELSE stored.entity]_vars

\* the text an entity carries after the mappings are applied to it
Applied(mappings, text, label) ==
    IF <<text, label>> \in DOMAIN mappings THEN mappings[<<text, label>>] ELSE text

\* C24: every key of the mappings a run builds is a text counted under its
\* label and its canonical text is counted under the same label; no
\* canonical text of a label is a key of that label; and applying the
\* mappings twice to an entity gives what applying them once gives.
C24_MappingTargetsAreFixedPoints ==
    [][norm_runs' = norm_runs + 1 =>
          LET mappings == replacement_mappings'
          IN /\ \A key \in DOMAIN mappings :
                   /\ CountedAs(processed_articles, key[2], key[1]) >= 1
                   /\ CountedAs(processed_articles, key[2], mappings[key]) >= 1
                   /\ <<mappings[key], key[2]>> \notin DOMAIN mappings
             /\ \A x \in NormOccurrences :
                   Applied(mappings, Applied(mappings, x.entity, x.label), x.label)
                      = Applied(mappings, x.entity, x.label)]_vars

\* after one run of the batch e2, e1, e3 under PER and e1 under ORG, e2
\* similar to both: the two PER variants are keys, their canonical text e2
\* is not, and e1 under ORG is as it was
C24_Witness ==
    /\ norm_runs = 1
    /\ replacement_mappings = (<<"e1", "PER">> :> "e2") @@ (<<"e3", "PER">> :> "e2")
    /\ processed_articles = <<Entity("e2", "PER"), Entity("e2", "PER"),
                              Entity("e2", "PER"), Entity("e1", "ORG")>>

\* the scan of an article of a known provider that mentions no country
\* leaves the mention matrices and the top-entity tables as they were and
\* adds 1 to the article count of its source
NoMentionArticleCounted ==
    (ScansResolvedArticle /\ MentionedBy(article) = {}) =>
       LET s == source_of(article, provider_country_map)
       IN /\ Count(articles_per_country', s) = Count(articles_per_country, s) + 1
          /\ UNCHANGED <<import_counts, export_counts, total_imports, total_exports,
                         country_coverage_matrix, country_covering_matrix,
                         country_related_entities>>

\* C25: an article of a resolved source that mentions no country adds 1 to
\* its source's article count and changes no Import, Export, Coverage,
\* Covering or top-entity count; and the provider count of every country
\* in the result is the number of its distinct providers among all the
\* articles read, those that mention no country included.
C25_NoMentionStillCounted ==
    /\ [][NoMentionArticleCounted]_vars
    /\ [](pc = "returned" =>
             \A c \in all_codes : Count(providers_per_country, c) = DistinctProviders(c))

\* a result of a date whose two articles, of one French provider, mention
\* no country: two articles and one provider for France, no mention counted
C25_Witness ==
    /\ pc = "returned"
    /\ Count(articles_per_country, "FRA") = 2
    /\ Count(providers_per_country, "FRA") = 1
    /\ total_imports = 0
    /\ import_counts = EmptyDict
    /\ country_coverage_matrix = EmptyDict
    /\ country_related_entities = EmptyDict

\* the sum of the counts a reported list carries
RECURSIVE ReportedTotal(_)
ReportedTotal(list) ==
    IF list = <<>> THEN 0 ELSE Head(list).count + ReportedTotal(Tail(list))

\* C26: in a returned result every country with a non-empty top-entity
\* table has a list of at most 10 distinct entities carrying their counts;
\* no unreported entity of the country has a count greater than a reported
\* one; each share is the count over the sum of the reported counts; and
\* the shares of the country sum to 1.
C26_TopEntitiesPerCountry ==
    pc = "returned" =>
       \A c \in DOMAIN country_related_entities :
          DOMAIN country_related_entities[c] # {} =>
             /\ c \in DOMAIN date_data.TopEntitiesByCountry
             /\ LET table == country_related_entities[c]
                    list == date_data.TopEntitiesByCountry[c]
                    reported == {list[i].entity : i \in DOMAIN list}
                IN /\ Len(list) <= 10
                   /\ Cardinality(reported) = Len(list)
                   /\ reported \subseteq DOMAIN table
                   /\ \A i \in DOMAIN list : list[i].count = table[list[i].entity]
                   /\ \A u \in DOMAIN table \ reported : \A r \in reported :
                         table[u] <= table[r]
                   /\ \A i \in DOMAIN list :
                         list[i].share = Quot(list[i].count, ReportedTotal(list))
                   /\ RSumValues([i \in DOMAIN list |-> list[i].share]) = ROne

\* a result in which Germany's table holds eleven entities, Scholz three
\* times and Putin twice: ten are reported, Scholz first with 3/13 of the
\* reported counts, the table's counts summing to 14
C26_Witness ==
    /\ pc = "returned"
    /\ "DEU" \in DOMAIN country_related_entities
    /\ "DEU" \in DOMAIN date_data.TopEntitiesByCountry
    /\ Cardinality(DOMAIN country_related_entities["DEU"]) = 11
    /\ SumValues(country_related_entities["DEU"]) = 14
    /\ Len(date_data.TopEntitiesByCountry["DEU"]) = 10
    /\ date_data.TopEntitiesByCountry["DEU"][1] =
          [entity |-> "Scholz", count |-> 3, share |-> Quot(3, 13)]

\* of, the, and, in, for, to, with
StopWords ==
    {<<"o", "f">>, <<"t", "h", "e">>, <<"a", "n", "d">>, <<"i", "n">>,
     <<"f", "o", "r">>, <<"t", "o">>, <<"w", "i", "t", "h">>}

\* the first letters of a list of words, in capitals
Initials(words) == [i \in DOMAIN words |-> upper(words[i])[1]]

\* short, without its spaces and periods, has at most 5 characters, which
\* are in order the first letters of the words of long, or of its words
\* other than the stop words
Abbreviates(short, long) ==
    LET letters == SelectSeq(upper(short), LAMBDA c : c \notin {" ", "."})
        words == split(long)
    IN /\ letters # <<>>
       /\ Len(letters) <= 5
       /\ \/ letters = Initials(words)
          \/ letters = Initials(SelectSeq(words, LAMBDA w : lower(w) \notin StopWords))

\* C27: are_entities_similar returns true for every two strings one of
\* which abbreviates the other, abbreviations written with periods or
\* spaces and expansions of 5 characters or fewer included.
C27_AbbreviationsAreSimilar ==
    \A i \in DOMAIN comparisons :
       (\/ Abbreviates(comparisons[i].entity1, comparisons[i].entity2)
        \/ Abbreviates(comparisons[i].entity2, comparisons[i].entity1))
       => comparisons[i].similar

\* the number a run of digits writes
RECURSIVE NumberOf(_)
NumberOf(digits) ==
    IF digits = <<>> THEN 0
    ELSE 10 * NumberOf(SubSeq(digits, 1, Len(digits) - 1))
            + (CHOOSE k \in 0..9 : DIGITS[k + 1] = digits[Len(digits)])

\* the calendar date a DD.MM.YYYY folder name writes, as days counted in
\* months of 31
CalendarDay(folder) ==
    (NumberOf(SubSeq(folder, 7, 10)) * 12 + NumberOf(SubSeq(folder, 4, 5))) * 31
       + NumberOf(SubSeq(folder, 1, 2))

\* C28: in the db.json written, an entry of an earlier calendar date
\* precedes every entry of a later calendar date.
C28_ArticlesPerDayChronological ==
    db.exists =>
       \A i, j \in DOMAIN db.articles_per_day :
          i < j => CalendarDay(db.articles_per_day[i].date)
                      < CalendarDay(db.articles_per_day[j].date)

\* the sum of the cells of a row of a matrix over the columns cols
RECURSIVE RowSum(_, _, _)
RowSum(matrix, row, cols) ==
    IF cols = {} THEN 0
    ELSE LET col == CHOOSE c \in cols : TRUE
         IN Cell(matrix, row, col) + RowSum(matrix, row, cols \ {col})

\* the country codes that key a matrix, its rows or their columns
KeysOf(matrix) == DOMAIN matrix \cup UNION {DOMAIN matrix[row] : row \in DOMAIN matrix}

\* the codes of the universe and every code the counts are keyed by
CountedCodes ==
    all_codes \cup KeysOf(country_coverage_matrix) \cup KeysOf(country_covering_matrix)
       \cup DOMAIN import_counts \cup DOMAIN export_counts

\* C29: at every point of the scan Coverage[a][b] = Covering[b][a] for
\* all countries a and b, Import[a] is the sum of the row Coverage[a], and
\* Export[b] is the sum of the row Covering[b].
C29_CoverageCoveringTransposed ==
    /\ \A a, b \in CountedCodes :
          Cell(country_coverage_matrix, a, b) = Cell(country_covering_matrix, b, a)
    /\ \A a \in CountedCodes :
          Count(import_counts, a) = RowSum(country_coverage_matrix, a, CountedCodes)
    /\ \A b \in CountedCodes :
          Count(export_counts, b) = RowSum(country_covering_matrix, b, CountedCodes)

\* two articles have been scanned, a French one that mentions Germany and
\* a German one that mentions France
C29_Witness ==
    /\ pc = "scan"
    /\ processed_article_count = 2
    /\ Cell(country_coverage_matrix, "DEU", "FRA") = 1
    /\ Cell(country_coverage_matrix, "FRA", "DEU") = 1
    /\ Cell(country_covering_matrix, "FRA", "DEU") = 1
    /\ Count(import_counts, "FRA") = 1
    /\ Count(export_counts, "FRA") = 1

\* C30: at every point of the scan the number of import events equals the
\* number of export events, the sum of the Import counts and the sum of
\* the Export counts.
C30_ImportsEqualExports ==
    /\ total_imports = total_exports
    /\ total_imports = SumValues(import_counts)
    /\ total_exports = SumValues(export_counts)

\* two articles of different countries have been scanned, each of which
\* mentions the country of the other
C30_Witness ==
    /\ pc = "scan"
    /\ processed_article_count = 2
    /\ total_imports = 2
    /\ Cardinality(DOMAIN import_counts) >= 2
    /\ Cardinality(DOMAIN export_counts) >= 2

====
